---- MODULE Spec2Model ----
(***************************************************************************)
(* A model of the server side of FIDO U2F as implemented by the u2f Go     *)
(* package: challenges, registration verification, authentication          *)
(* verification, and the caller that persists their results.               *)
(*                                                                         *)
(* Conventions.                                                            *)
(*  - A byte is an integer 0..255; a byte string is a sequence of bytes.   *)
(*  - A Go string whose characters the code inspects (a base64url text, an *)
(*    origin) is a sequence of one-character strings.                      *)
(*  - Time is counted in minutes; timeout is 5 of them.                    *)
(*  - The standard library is modelled by its contract.  sha256 is an      *)
(*    injective tag, an ECDSA signature is the pair (signer, digest), and  *)
(*    a DER element / JSON document / certificate is the value it parses   *)
(*    to together with what the parser reports about it.                   *)
(***************************************************************************)
EXTENDS Integers, Sequences, FiniteSets, TLC

VARIABLES now, challenge, store, counter, api, arg, last, hist, vk

vars == <<now, challenge, store, counter, api, arg, last, hist, vk>>

-----------------------------------------------------------------------------
(* Bounds of the model *)

MaxTime == 6
MaxCounter == 2
MaxChallenges == 2
MaxRegistrations == 2

(* Program constants *)

timeout == 5
ChallengeLen == 32
u2fVersion == "U2F_V2"

-----------------------------------------------------------------------------
(* Errors.  The library's own errors carry the text of the source; an      *)
(* error of the standard library is named after the package raising it.    *)

NoError == "<nil>"
ErrCounterLow == "u2f: counter not increasing"
ErrUntrustedFacet == "u2f: untrusted facet id"
ErrWrongKeyHandle == "u2f: wrong key handle"
ErrChallengeExpired == "u2f: challenge has expired"
ErrChallengeMismatch == "u2f: challenge does not match"
ErrUserNotPresent == "u2f: user was not present"
ErrDataShort == "u2f: data is too short"
ErrTrailingData == "u2f: trailing data"
ErrInvalidPresense == "u2f: invalid user presence byte"
ErrInvalidSig == "u2f: invalid signature"
ErrInvalidReservedByte == "u2f: invalid reserved byte"
ErrInvalidPublicKey == "u2f: invalid public key"
ErrInvalidKeyHandle == "u2f: invalid key handle"
ErrBase64 == "base64: illegal base64 data"
ErrJSON == "json: cannot unmarshal"
ErrASN1 == "asn1: structure error"
ErrX509Parse == "x509: malformed certificate"
ErrX509UnknownAuthority == "x509: certificate signed by unknown authority"
ErrX509Signature == "x509: ECDSA verification failure"
ErrRandomGen == "u2f: unable to generate random bytes"
ErrRandRead == "rand: unexpected EOF"
\* no error value: the goroutine panics on an index or slice out of range
PanicOutOfRange == "panic: runtime error: index out of range"

-----------------------------------------------------------------------------
(* base64url without padding *)

Alphabet ==
  << "A","B","C","D","E","F","G","H","I","J","K","L","M","N","O","P",
     "Q","R","S","T","U","V","W","X","Y","Z","a","b","c","d","e","f",
     "g","h","i","j","k","l","m","n","o","p","q","r","s","t","u","v",
     "w","x","y","z","0","1","2","3","4","5","6","7","8","9","-","_" >>

\* base64.URLEncoding.EncodeToString: three bytes give four characters, a
\* final group of one or two bytes is padded with '='.
RECURSIVE EncodeToString(_)
EncodeToString(buf) ==
  IF Len(buf) = 0 THEN << >>
  ELSE IF Len(buf) = 1 THEN
    << Alphabet[(buf[1] \div 4) + 1],
       Alphabet[((buf[1] % 4) * 16) + 1], "=", "=" >>
  ELSE IF Len(buf) = 2 THEN
    << Alphabet[(buf[1] \div 4) + 1],
       Alphabet[((buf[1] % 4) * 16 + (buf[2] \div 16)) + 1],
       Alphabet[((buf[2] % 16) * 4) + 1], "=" >>
  ELSE
    << Alphabet[(buf[1] \div 4) + 1],
       Alphabet[((buf[1] % 4) * 16 + (buf[2] \div 16)) + 1],
       Alphabet[((buf[2] % 16) * 4 + (buf[3] \div 64)) + 1],
       Alphabet[(buf[3] % 64) + 1] >>
    \o EncodeToString(SubSeq(buf, 4, Len(buf)))

\* strings.TrimRight(s, cutset) for a one-character cutset
RECURSIVE TrimRight(_, _)
TrimRight(s, ch) ==
  IF Len(s) > 0 /\ s[Len(s)] = ch THEN TrimRight(SubSeq(s, 1, Len(s) - 1), ch)
  ELSE s

\* the encoding with its padding kept
encodeBase64Padded(buf) == EncodeToString(buf)

encodeBase64(buf) == TrimRight(EncodeToString(buf), "=")

\* The text of a payload field of a response (signatureData, clientData,
\* registrationData) is kept as the bytes it stands for and whether the
\* text is well-formed base64url: decodeBase64 either fails or yields them.
decodeBase64Payload(s) ==
  IF s.b64 THEN [bytes |-> <<s.bytes>>, err |-> NoError]
  ELSE [bytes |-> << >>, err |-> ErrBase64]

\* The value of a character in the URL alphabet, 0..63; 64 for any other
\* character ('=' included).
DecodeMap(ch) ==
  IF \E i \in 1..64 : Alphabet[i] = ch
  THEN (CHOOSE i \in 1..64 : Alphabet[i] = ch) - 1
  ELSE 64

\* []byte(s) for a text over the base64url characters
AsciiOf(ch) ==
  LET v == DecodeMap(ch)
  IN IF v < 26 THEN 65 + v
     ELSE IF v < 52 THEN 97 + (v - 26)
     ELSE IF v < 62 THEN 48 + (v - 52)
     ELSE IF v = 62 THEN 45
     ELSE IF v = 63 THEN 95
     ELSE 61

BytesOfText(s) == [i \in 1..Len(s) |-> AsciiOf(s[i])]

\* base64.URLEncoding.DecodeString (padded, not strict): the text is read
\* four characters at a time; '=' may only close the last group, as "xx=="
\* or "xxx="; a group cut short is an error.  The bytes decoded before an
\* error are returned with it.
RECURSIVE DecodeString(_)
DecodeString(s) ==
  IF Len(s) = 0 THEN [bytes |-> << >>, err |-> NoError]
  ELSE IF Len(s) < 4 \/ DecodeMap(s[1]) = 64 \/ DecodeMap(s[2]) = 64
  THEN [bytes |-> << >>, err |-> ErrBase64]
  ELSE
    LET v1 == DecodeMap(s[1])
        v2 == DecodeMap(s[2])
        v3 == DecodeMap(s[3])
        v4 == DecodeMap(s[4])
        b1 == v1 * 4 + (v2 \div 16)
        b2 == (v2 % 16) * 16 + (v3 \div 4)
        b3 == (v3 % 4) * 64 + v4
    IN  IF s[3] = "=" THEN
          IF s[4] = "=" /\ Len(s) = 4
          THEN [bytes |-> << b1 >>, err |-> NoError]
          ELSE [bytes |-> << >>, err |-> ErrBase64]
        ELSE IF v3 = 64 THEN [bytes |-> << >>, err |-> ErrBase64]
        ELSE IF s[4] = "=" THEN
          IF Len(s) = 4
          THEN [bytes |-> << b1, b2 >>, err |-> NoError]
          ELSE [bytes |-> << >>, err |-> ErrBase64]
        ELSE IF v4 = 64 THEN [bytes |-> << >>, err |-> ErrBase64]
        ELSE
          LET more == DecodeString(SubSeq(s, 5, Len(s)))
          IN  [bytes |-> << b1, b2, b3 >> \o more.bytes, err |-> more.err]

\* the text left as it came, no padding restored
PadLoopNone(s, i) == s

\* for i := 0; i < len(s)%4; i++ { s += "=" }: the bound is read again on
\* every round, with the text as it has grown.
RECURSIVE PadLoop(_, _)
PadLoop(s, i) ==
  IF i < Len(s) % 4 THEN PadLoop(s \o << "=" >>, i + 1) ELSE s

\* the padding counted once, before the loop
decodeBase64PadOnce(s) == DecodeString(s \o [i \in 1..(Len(s) % 4) |-> "="])

\* decodeBase64 on the characters of a text
decodeBase64(s) == DecodeString(PadLoop(s, 0))

-----------------------------------------------------------------------------
(* Standard-library contracts *)

\* sha256.Sum256: collision-free
Sum256(x) == [sha256 |-> x]

\* an unmarshal that reports nothing left over
asn1UnmarshalSigWhole(der) ==
  IF der.form = "sig"
  THEN [err |-> NoError, sig |-> [signer |-> der.signer, digest |-> der.digest],
        rest |-> 0]
  ELSE [err |-> ErrASN1, sig |-> [signer |-> 0, digest |-> [none |-> TRUE]],
        rest |-> 0]

\* asn1.Unmarshal(der, &ecdsaSig): an error, or the pair (R, S) and the
\* number of bytes left over.  (R, S) is kept as the signer and the digest.
asn1UnmarshalSig(der) ==
  IF der.form = "sig"
  THEN [err |-> NoError, sig |-> [signer |-> der.signer, digest |-> der.digest],
        rest |-> der.rest]
  ELSE [err |-> ErrASN1, sig |-> [signer |-> 0, digest |-> [none |-> TRUE]],
        rest |-> 0]

\* ecdsa.Verify(pub, hash, r, s)
ecdsaVerify(pubKey, hash, sig) == sig.signer = pubKey /\ sig.digest = hash

\* json.Unmarshal(clientData, &cd)
jsonUnmarshalClientData(clientData) ==
  IF clientData.json
  THEN [err |-> NoError,
        cd |-> [Typ |-> clientData.Typ, Challenge |-> clientData.Challenge,
                Origin |-> clientData.Origin]]
  ELSE [err |-> ErrJSON, cd |-> [Typ |-> "", Challenge |-> << >>, Origin |-> << >>]]

\* subtle.ConstantTimeCompare(x, y): 1 when equal, 0 otherwise (0 at once
\* when the lengths differ)
ConstantTimeCompare(x, y) ==
  IF Len(x) # Len(y) THEN 0
  ELSE IF \A i \in 1..Len(x) : x[i] = y[i] THEN 1 ELSE 0

-----------------------------------------------------------------------------
(* util.go *)

\* a challenge aged exactly timeout counted as expired
ExpiredAtTimeout(t, c) == t - c.Timestamp >= timeout

\* time.Now().Sub(c.Timestamp) > timeout
Expired(t, c) == t - c.Timestamp > timeout

\* a facet accepted as a prefix of the origin
FacetIsPrefix(facetID, origin) ==
  /\ Len(facetID) <= Len(origin)
  /\ \A i \in 1..Len(facetID) : facetID[i] = origin[i]

FacetEquals(facetID, origin) == facetID = origin

\* the comparison without the length test, over the shorter text
ChallengeMatchesUpToLength(c, given) ==
  \A i \in 1..(IF Len(c) < Len(given) THEN Len(c) ELSE Len(given)) : c[i] = given[i]

ChallengeMatches(c, given) ==
  ~ (Len(c) # Len(given) \/ ConstantTimeCompare(c, given) # 1)

verifyClientData(clientData, c) ==
  LET u == jsonUnmarshalClientData(clientData)
      foundFacetID ==
        \E i \in 1..Len(c.TrustedFacets) : FacetEquals(c.TrustedFacets[i], u.cd.Origin)
  IN IF u.err # NoError THEN u.err
     ELSE IF ~ foundFacetID THEN ErrUntrustedFacet
     ELSE IF ~ ChallengeMatches(encodeBase64(c.Challenge), u.cd.Challenge)
          THEN ErrChallengeMismatch
     ELSE NoError

-----------------------------------------------------------------------------
(* auth.go: signature data *)

\* A signature-data byte string is its first bytes (at most 5: the presence
\* byte and the counter) followed by the DER part, kept as what
\* asn1.Unmarshal makes of it and its length in bytes; the DER part is empty
\* whenever fewer than 5 bytes come before it.
SdLen(sd) == Len(sd.raw) + sd.der.len

\* userPresence|1
Or1(b) == IF b % 2 = 1 THEN b ELSE b + 1

\* only bit 0 looked at, the other bits ignored
PresenceBitOnly(userPresence) == userPresence % 2 \in {0, 1}

\* userPresence|1 != 1 is the rejection
PresenceByteValid(userPresence) == Or1(userPresence) = 1

\* the four counter bytes read least significant first
CounterOfLittleEndian(sd) ==
  sd.raw[5] * 16777216 + sd.raw[4] * 65536 + sd.raw[3] * 256 + sd.raw[2]

\* uint32(sd[1])<<24 | uint32(sd[2])<<16 | uint32(sd[3])<<8 | uint32(sd[4])
CounterOf(sd) ==
  sd.raw[2] * 16777216 + sd.raw[3] * 65536 + sd.raw[4] * 256 + sd.raw[5]

\* presence taken as verified whatever the byte
UserPresenceAssumed(userPresence) == TRUE

\* ar.UserPresenceVerified = userPresence == 1
UserPresenceVerified(userPresence) == userPresence = 1

NoAuthResp ==
  [UserPresenceVerified |-> FALSE, Counter |-> 0,
   sig |-> [signer |-> 0, digest |-> [none |-> TRUE]], raw |-> << >>]

\* An index or slice expression of the code, as the bounds it asks for and
\* the length of the slice it is applied to: buf[i] is [i, i + 1], buf[:k]
\* is [0, k], buf[k:] is [k, len(buf)].
Read(lo, hi, len) == [lo |-> lo, hi |-> hi, len |-> len]

\* the bounds the runtime checks on every read
InRange(reads) ==
  \A i \in 1..Len(reads) :
    0 <= reads[i].lo /\ reads[i].lo <= reads[i].hi /\ reads[i].hi <= reads[i].len

\* if len(sd) < 5
SignatureDataShort(n) == n < 5

\* sd[0], sd[1] .. sd[4], sd[:5], sd[5:]
parseSignResponseReads(sd) ==
  LET n == SdLen(sd)
  IN IF SignatureDataShort(n) THEN << >>
     ELSE << Read(0, 1, n), Read(1, 2, n), Read(2, 3, n), Read(3, 4, n),
             Read(4, 5, n), Read(0, 5, n), Read(5, n, n) >>

parseSignResponse(sd) ==
  IF SignatureDataShort(SdLen(sd)) THEN [ar |-> NoAuthResp, err |-> ErrDataShort]
  ELSE IF ~ InRange(parseSignResponseReads(sd))
  THEN [ar |-> NoAuthResp, err |-> PanicOutOfRange]
  ELSE
    LET userPresence == sd.raw[1]
        u == asn1UnmarshalSig(sd.der)
    IN IF ~ PresenceByteValid(userPresence)
         THEN [ar |-> NoAuthResp, err |-> ErrInvalidPresense]
       ELSE IF u.err # NoError THEN [ar |-> NoAuthResp, err |-> u.err]
       ELSE IF u.rest # 0 THEN [ar |-> NoAuthResp, err |-> ErrTrailingData]
       ELSE [ar |-> [UserPresenceVerified |-> UserPresenceVerified(userPresence),
                     Counter |-> CounterOf(sd),
                     sig |-> u.sig,
                     raw |-> SubSeq(sd.raw, 1, 5)],
             err |-> NoError]

\* appParam || raw || challenge
AuthBuf(appID, raw, clientData) ==
  [app |-> Sum256(appID), raw |-> raw, challenge |-> Sum256(clientData)]

verifyAuthSignature(ar, pubKey, appID, clientData) ==
  LET hash == Sum256(AuthBuf(appID, ar.raw, clientData))
  IN IF ~ ecdsaVerify(pubKey, hash, ar.sig) THEN ErrInvalidSig ELSE NoError

-----------------------------------------------------------------------------
(* auth.go: authentication with a counter kept by the caller *)

\* a counter equal to the stored one counted as too low
CounterNotAbove(parsed, stored) == parsed <= stored

\* ar.Counter < counter
CounterTooLow(parsed, stored) == parsed < stored

Registration_AuthenticateCounterLast(reg, resp, c, ctr, t) ==
  LET sigData == decodeBase64Payload(resp.SignatureData)
      clientData == decodeBase64Payload(resp.ClientData)
      p == parseSignResponse(sigData.bytes[1])
      fail(e) == [newCounter |-> 0, err |-> e]
  IN IF Expired(t, c) THEN fail(ErrChallengeExpired)
     ELSE IF resp.KeyHandle # encodeBase64(reg.KeyHandle) THEN fail(ErrWrongKeyHandle)
     ELSE IF sigData.err # NoError THEN fail(sigData.err)
     ELSE IF clientData.err # NoError THEN fail(clientData.err)
     ELSE IF p.err # NoError THEN fail(p.err)
     ELSE IF verifyClientData(clientData.bytes[1], c) # NoError
          THEN fail(verifyClientData(clientData.bytes[1], c))
     ELSE IF verifyAuthSignature(p.ar, reg.PubKey, c.AppID, clientData.bytes[1]) # NoError
          THEN fail(verifyAuthSignature(p.ar, reg.PubKey, c.AppID, clientData.bytes[1]))
     ELSE IF ~ p.ar.UserPresenceVerified THEN fail(ErrUserNotPresent)
     ELSE IF CounterTooLow(p.ar.Counter, ctr) THEN fail(ErrCounterLow)
     ELSE [newCounter |-> p.ar.Counter, err |-> NoError]

Registration_Authenticate(reg, resp, c, ctr, t) ==
  LET sigData == decodeBase64Payload(resp.SignatureData)
      clientData == decodeBase64Payload(resp.ClientData)
      p == parseSignResponse(sigData.bytes[1])
      fail(e) == [newCounter |-> 0, err |-> e]
  IN IF Expired(t, c) THEN fail(ErrChallengeExpired)
     ELSE IF resp.KeyHandle # encodeBase64(reg.KeyHandle) THEN fail(ErrWrongKeyHandle)
     ELSE IF sigData.err # NoError THEN fail(sigData.err)
     ELSE IF clientData.err # NoError THEN fail(clientData.err)
     ELSE IF p.err # NoError THEN fail(p.err)
     ELSE IF CounterTooLow(p.ar.Counter, ctr) THEN fail(ErrCounterLow)
     ELSE IF verifyClientData(clientData.bytes[1], c) # NoError
          THEN fail(verifyClientData(clientData.bytes[1], c))
     ELSE IF verifyAuthSignature(p.ar, reg.PubKey, c.AppID, clientData.bytes[1]) # NoError
          THEN fail(verifyAuthSignature(p.ar, reg.PubKey, c.AppID, clientData.bytes[1]))
     ELSE IF ~ p.ar.UserPresenceVerified THEN fail(ErrUserNotPresent)
     ELSE [newCounter |-> p.ar.Counter, err |-> NoError]

\* for _, r := range registrations { if match { reg = &r } }: r is one
\* variable for the whole loop, so once the loop has ended *reg is the value
\* r was given last, the final element of the slice.
FindRegistration(registrations, keyHandle) ==
  IF \E i \in 1..Len(registrations) :
       keyHandle = encodeBase64(registrations[i].KeyHandle)
  THEN << registrations[Len(registrations)] >>
  ELSE << >>

SignRequestMessage_Authenticate(sr, resp, ctr, t) ==
  LET reg == FindRegistration(sr.registrations, resp.KeyHandle)
  IN IF reg = << >> THEN [newCounter |-> 0, err |-> ErrWrongKeyHandle]
     ELSE Registration_Authenticate(reg[1], resp, sr.challenge, ctr, t)

-----------------------------------------------------------------------------
(* Challenge.Authenticate: the counter is kept in the Registration *)

Challenge_AuthenticatePresenceFirst(c, resp, t) ==
  LET found == FindRegistration(c.RegisteredKeys, resp.KeyHandle)
      reg == found[1]
      sigData == decodeBase64Payload(resp.SignatureData)
      clientData == decodeBase64Payload(resp.ClientData)
      p == parseSignResponse(sigData.bytes[1])
      fail(e) == [reg |-> << >>, err |-> e]
  IN IF Expired(t, c) THEN fail(ErrChallengeExpired)
     ELSE IF found = << >> THEN fail(ErrWrongKeyHandle)
     ELSE IF sigData.err # NoError THEN fail(sigData.err)
     ELSE IF clientData.err # NoError THEN fail(clientData.err)
     ELSE IF p.err # NoError THEN fail(p.err)
     ELSE IF CounterTooLow(p.ar.Counter, reg.Counter) THEN fail(ErrCounterLow)
     ELSE IF verifyClientData(clientData.bytes[1], c) # NoError
          THEN fail(verifyClientData(clientData.bytes[1], c))
     ELSE IF ~ p.ar.UserPresenceVerified THEN fail(ErrUserNotPresent)
     ELSE IF verifyAuthSignature(p.ar, reg.PubKey, c.AppID, clientData.bytes[1]) # NoError
          THEN fail(verifyAuthSignature(p.ar, reg.PubKey, c.AppID, clientData.bytes[1]))
     ELSE [reg |-> << [reg EXCEPT !.Counter = p.ar.Counter] >>, err |-> NoError]

Challenge_Authenticate(c, resp, t) ==
  LET found == FindRegistration(c.RegisteredKeys, resp.KeyHandle)
      reg == found[1]
      sigData == decodeBase64Payload(resp.SignatureData)
      clientData == decodeBase64Payload(resp.ClientData)
      p == parseSignResponse(sigData.bytes[1])
      fail(e) == [reg |-> << >>, err |-> e]
  IN IF Expired(t, c) THEN fail(ErrChallengeExpired)
     ELSE IF found = << >> THEN fail(ErrWrongKeyHandle)
     ELSE IF sigData.err # NoError THEN fail(sigData.err)
     ELSE IF clientData.err # NoError THEN fail(clientData.err)
     ELSE IF p.err # NoError THEN fail(p.err)
     ELSE IF CounterTooLow(p.ar.Counter, reg.Counter) THEN fail(ErrCounterLow)
     ELSE IF verifyClientData(clientData.bytes[1], c) # NoError
          THEN fail(verifyClientData(clientData.bytes[1], c))
     ELSE IF verifyAuthSignature(p.ar, reg.PubKey, c.AppID, clientData.bytes[1]) # NoError
          THEN fail(verifyAuthSignature(p.ar, reg.PubKey, c.AppID, clientData.bytes[1]))
     ELSE IF ~ p.ar.UserPresenceVerified THEN fail(ErrUserNotPresent)
     ELSE [reg |-> << [reg EXCEPT !.Counter = p.ar.Counter] >>, err |-> NoError]

\* What reg points to after the loop: 0 is the loop's variable r, which
\* holds a copy of an element; i > 0 would be c.RegisteredKeys[i] itself.
AddressOfElement(registrations, keyHandle) ==
  IF FindRegistration(registrations, keyHandle) = << >> THEN 0
  ELSE Len(registrations)

\* reg = &r
AddressOfRangeVariable(registrations, keyHandle) == 0

\* reg.Counter = ar.Counter, as c.RegisteredKeys sees it
StoreCounter(c, address, n) ==
  IF address = 0 THEN c
  ELSE [c EXCEPT !.RegisteredKeys[address].Counter = n]

\* the Challenge after c.Authenticate(resp): the one write of the call is
\* made once the counter was found high enough
Challenge_AfterAuthenticate(c, resp, t) ==
  LET sigData == decodeBase64Payload(resp.SignatureData)
      clientData == decodeBase64Payload(resp.ClientData)
      p == parseSignResponse(sigData.bytes[1])
  IN IF Expired(t, c) THEN c
     ELSE IF FindRegistration(c.RegisteredKeys, resp.KeyHandle) = << >> THEN c
     ELSE IF sigData.err # NoError \/ clientData.err # NoError THEN c
     ELSE IF p.err # NoError THEN c
     ELSE IF CounterTooLow(p.ar.Counter,
                           FindRegistration(c.RegisteredKeys, resp.KeyHandle)[1].Counter)
          THEN c
     ELSE StoreCounter(c, AddressOfRangeVariable(c.RegisteredKeys, resp.KeyHandle),
                       p.ar.Counter)

-----------------------------------------------------------------------------
(* register.go: registration data *)

\* A registration-data byte string is its leading bytes (the reserved byte,
\* the 65 bytes of the public key, the key-handle length and the key handle)
\* followed by two DER parts, the certificate and the signature, each kept
\* as what its parser makes of it and its length in bytes.  The DER parts
\* are empty unless the leading bytes are complete.
RdLen(rd) == Len(rd.head) + rd.cert.len + rd.sig.len

\* elliptic.Marshal: 0x04 || X || Y, 65 bytes.  The point of key k is
\* written as 64 bytes k.
ellipticMarshal(key) == << 4 >> \o [i \in 1..64 |-> key]

\* elliptic.Unmarshal: the point, or nil when the bytes are no point of the
\* curve in uncompressed form
ellipticUnmarshal(data) ==
  IF /\ Len(data) = 65
     /\ data[1] = 4
     /\ data[2] # 0
     /\ \A i \in 2..65 : data[i] = data[2]
  THEN [ok |-> TRUE, key |-> data[2]]
  ELSE [ok |-> FALSE, key |-> 0]

\* asn1.Unmarshal(buf, &asn1.RawValue{}): any well-formed element is taken
asn1UnmarshalRaw(der) ==
  IF der.form \in {"elem", "cert"} THEN NoError ELSE ErrASN1

\* x509.ParseCertificate
x509ParseCertificate(der) ==
  IF der.form = "cert" THEN NoError ELSE ErrX509Parse

NoRegistration ==
  [KeyHandle |-> << >>, PubKey |-> 0, Counter |-> 0, AttestationCert |-> << >>]

\* a registration whose stored counter is 1 from the start
NewRegistrationCounted(keyHandle, pubKey, cert) ==
  [KeyHandle |-> keyHandle, PubKey |-> pubKey, Counter |-> 1,
   AttestationCert |-> << cert >>]

\* var r RegistrationRaw; ...; r.Counter = 0
NewRegistration(keyHandle, pubKey, cert) ==
  [KeyHandle |-> keyHandle, PubKey |-> pubKey, Counter |-> 0,
   AttestationCert |-> << cert >>]

\* the declared length rejected also when it is all that remains
KeyHandleFillsOrExceeds(remaining, khLen) == remaining <= khLen

\* if len(buf) < khLen, buf being what follows the length byte
KeyHandleTooLong(remaining, khLen) == remaining < khLen

\* the key handle taken one byte early, from the length byte on
KeyHandleFromLengthByte(head, khLen) == SubSeq(head, 67, 66 + khLen)

\* r.KeyHandle = buf[:khLen], buf being what follows the length byte
KeyHandleOf(head, khLen) == SubSeq(head, 68, 67 + khLen)

\* only the empty input refused
RegistrationDataEmpty(n) == n < 1

\* if len(buf) < 1+65+1+1+1
RegistrationDataShort(n) == n < 1 + 65 + 1 + 1 + 1

\* The reads of parseRegistration in the order the code makes them, up to
\* the return or to the first read that is out of range: buf[0]; buf[1:],
\* buf[:65]; buf[65:], buf[0], buf[1:]; buf[:khLen], buf[khLen:];
\* buf[:len(buf)-len(rest)], rest being what asn1.Unmarshal left over.
parseRegistrationReads(buf) ==
  LET n == RdLen(buf)
      r1 == << Read(0, 1, n) >>
      r2 == r1 \o << Read(1, n, n), Read(0, 65, n - 1) >>
      r3 == r2 \o << Read(65, n - 1, n - 1), Read(0, 1, n - 66),
                     Read(1, n - 66, n - 66) >>
      r4 == r3 \o << Read(0, buf.head[67], n - 67),
                     Read(buf.head[67], n - 67, n - 67) >>
      r5 == r4 \o << Read(0, n - 67 - buf.head[67] - buf.sig.len,
                          n - 67 - buf.head[67]) >>
  IN IF RegistrationDataShort(n) THEN << >>
     ELSE IF ~ InRange(r1) \/ buf.head[1] # 5 THEN r1
     ELSE IF ~ InRange(r2) \/ ~ ellipticUnmarshal(SubSeq(buf.head, 2, 66)).ok THEN r2
     ELSE IF ~ InRange(r3) \/ KeyHandleTooLong(n - 67, buf.head[67]) THEN r3
     ELSE IF ~ InRange(r4) \/ asn1UnmarshalRaw(buf.cert) # NoError THEN r4
     ELSE r5

\* parseRegistration yields the registration, its unexported raw bytes
\* (r.raw = buf, the whole input) and the signature
parseRegistration(buf) ==
  LET fail(e) == [reg |-> NoRegistration, raw |-> << >>, sig |-> << >>, err |-> e]
      pk == ellipticUnmarshal(SubSeq(buf.head, 2, 66))
      khLen == buf.head[67]
      remaining == RdLen(buf) - 67
  IN IF RegistrationDataShort(RdLen(buf)) THEN fail(ErrDataShort)
     ELSE IF ~ InRange(parseRegistrationReads(buf)) THEN fail(PanicOutOfRange)
     ELSE IF buf.head[1] # 5 THEN fail(ErrInvalidReservedByte)
     ELSE IF ~ pk.ok THEN fail(ErrInvalidPublicKey)
     ELSE IF KeyHandleTooLong(remaining, khLen) THEN fail(ErrInvalidKeyHandle)
     ELSE IF asn1UnmarshalRaw(buf.cert) # NoError THEN fail(asn1UnmarshalRaw(buf.cert))
     ELSE IF x509ParseCertificate(buf.cert) # NoError
          THEN fail(x509ParseCertificate(buf.cert))
     ELSE [reg |-> NewRegistration(KeyHandleOf(buf.head, khLen), pk.key, buf.cert),
           raw |-> << buf >>,
           sig |-> << buf.sig >>,
           err |-> NoError]

\* the serialization cut after the certificate, the signature left out
MarshalBinaryWithoutSignature(r) ==
  IF r.raw = << >> THEN [data |-> << >>, err |-> NoError]
  ELSE [data |-> << [r.raw[1] EXCEPT !.sig = [form |-> "none", signer |-> 0,
                                               digest |-> [none |-> TRUE],
                                               rest |-> 0, len |-> 0]] >>,
        err |-> NoError]

\* func (r *RegistrationRaw) MarshalBinary: return r.raw, nil.  r is what
\* parseRegistration yielded; raw is empty when the registration was not
\* made by parsing.
MarshalBinary(r) == [data |-> r.raw, err |-> NoError]

\* func (r *RegistrationRaw) UnmarshalBinary(data): parseRegistration(data),
\* the signature dropped; a nil slice is parsed as the empty input
UnmarshalBinary(data) ==
  IF data = << >>
  THEN [reg |-> NoRegistration, raw |-> << >>, err |-> ErrDataShort]
  ELSE LET p == parseRegistration(data[1])
       IN  [reg |-> p.reg, raw |-> p.raw, err |-> p.err]

-----------------------------------------------------------------------------
(* util.go: a registration written into and read from a caller's struct *)

ErrCannotFindField == "Cannot find field: %s"
ErrInvalidFieldType == "Invalid field type: %s field: %s"

\* cert.Raw: the DER bytes of a certificate, eight of them, holding its key
\* and whether a trusted root signed it
CertRaw(cert) ==
  << 48, 6, 2, cert.key, 1, 1, IF cert.root THEN 255 ELSE 0, 0 >>

\* x509.ParseCertificate on bytes
x509ParseCertificateRaw(bytes) ==
  IF /\ Len(bytes) = 8
     /\ SubSeq(bytes, 1, 3) = << 48, 6, 2 >>
     /\ SubSeq(bytes, 5, 6) = << 1, 1 >>
     /\ bytes[7] \in {0, 255} /\ bytes[8] = 0
  THEN [err |-> NoError,
        cert |-> << [form |-> "cert", key |-> bytes[4], root |-> bytes[7] = 255,
                     len |-> 8] >>]
  ELSE [err |-> ErrX509Parse, cert |-> << >>]

\* reflectSetFieldString / reflectSetFieldUint: the field must exist and be
\* of the kind asked for; kinds are "string", "uint", "uint32", and
\* "invalid" for a field the struct does not have
reflectFieldError(shape, name, kind) ==
  IF shape[name] = "invalid" THEN ErrCannotFindField
  ELSE IF shape[name] # kind THEN ErrInvalidFieldType
  ELSE NoError

\* the caller's struct before anything is written into it
ZeroStruct ==
  [KeyHandle |-> << >>, PublicKey |-> << >>, Certificate |-> << >>,
   Counter |-> 0]

\* func (reg *Registration) MarshalStruct(i): the fields are written one
\* after the other, and the first failure ends the call
MarshalStruct(reg, shape) ==
  LET s1 == [ZeroStruct EXCEPT !.KeyHandle = reg.KeyHandle]
      s2 == [s1 EXCEPT !.PublicKey = encodeBase64(ellipticMarshal(reg.PubKey))]
      s3 == [s2 EXCEPT !.Certificate = encodeBase64(CertRaw(reg.AttestationCert[1]))]
      s4 == [s3 EXCEPT !.Counter = reg.Counter]
  IN IF reflectFieldError(shape, "KeyHandle", "string") # NoError
       THEN [i |-> ZeroStruct, err |-> reflectFieldError(shape, "KeyHandle", "string")]
     ELSE IF reflectFieldError(shape, "PublicKey", "string") # NoError
       THEN [i |-> s1, err |-> reflectFieldError(shape, "PublicKey", "string")]
     ELSE IF reflectFieldError(shape, "Certificate", "string") # NoError
       THEN [i |-> s2, err |-> reflectFieldError(shape, "Certificate", "string")]
     ELSE IF reflectFieldError(shape, "Counter", "uint") # NoError
       THEN [i |-> s3, err |-> reflectFieldError(shape, "Counter", "uint")]
     ELSE [i |-> s4, err |-> NoError]

\* func (reg *Registration) UnmarshalStruct(i), on a zero Registration: the
\* fields are read one after the other, and the first failure ends the
\* call with what was read so far.  A public key that is no point is taken
\* without an error (X and Y nil).
UnmarshalStruct(i, shape) ==
  LET pkBytes == decodeBase64(i.PublicKey)
      pk == ellipticUnmarshal(pkBytes.bytes)
      certBytes == decodeBase64(i.Certificate)
      cert == x509ParseCertificateRaw(certBytes.bytes)
      r1 == [NoRegistration EXCEPT !.KeyHandle = i.KeyHandle]
      r2 == [r1 EXCEPT !.PubKey = pk.key]
      r3 == [r2 EXCEPT !.AttestationCert = cert.cert]
      r4 == [r3 EXCEPT !.Counter = i.Counter]
  IN IF reflectFieldError(shape, "KeyHandle", "string") # NoError
       THEN [reg |-> NoRegistration, err |-> reflectFieldError(shape, "KeyHandle", "string")]
     ELSE IF reflectFieldError(shape, "PublicKey", "string") # NoError
       THEN [reg |-> r1, err |-> reflectFieldError(shape, "PublicKey", "string")]
     ELSE IF pkBytes.err # NoError THEN [reg |-> r1, err |-> pkBytes.err]
     ELSE IF reflectFieldError(shape, "Certificate", "string") # NoError
       THEN [reg |-> r2, err |-> reflectFieldError(shape, "Certificate", "string")]
     ELSE IF certBytes.err # NoError THEN [reg |-> r2, err |-> certBytes.err]
     ELSE IF cert.err # NoError THEN [reg |-> r2, err |-> cert.err]
     ELSE IF reflectFieldError(shape, "Counter", "uint") # NoError
       THEN [reg |-> r3, err |-> reflectFieldError(shape, "Counter", "uint")]
     ELSE [reg |-> r4, err |-> NoError]

\* r.AttestationCert.Verify(x509.VerifyOptions{Roots: roots})
x509Verify(cert) == IF cert.root THEN NoError ELSE ErrX509UnknownAuthority

\* register.go: the attestation certificate is always verified
verifyAttestationCert(r) == x509Verify(r.AttestationCert[1])

\* Challenge.Register: config.SkipAttestationVerify
SkipAttestation(config) == config.SkipAttestationVerify

verifyAttestationCertConfig(r, config) ==
  IF SkipAttestation(config) THEN NoError ELSE x509Verify(r.AttestationCert[1])

\* 0x00 || appParam || challenge || keyHandle || publicKey
RegBuf(appid, clientData, keyHandle, pk) ==
  [rfu |-> 0, app |-> Sum256(appid), challenge |-> Sum256(clientData),
   kh |-> keyHandle, pk |-> pk]

\* cert.CheckSignature(x509.ECDSAWithSHA256, buf, signature)
x509CheckSignature(cert, buf, signature) ==
  LET u == asn1UnmarshalSig(signature)
  IN IF u.err # NoError THEN u.err
     ELSE IF ~ ecdsaVerify(cert.key, Sum256(buf), u.sig) THEN ErrX509Signature
     ELSE NoError

verifyRegistrationSignature(r, signature, appid, clientData) ==
  x509CheckSignature(r.AttestationCert[1],
                     RegBuf(appid, clientData, r.KeyHandle, ellipticMarshal(r.PubKey)),
                     signature)

RegisterSignatureFirst(resp, c, t) ==
  LET regData == decodeBase64Payload(resp.RegistrationData)
      clientData == decodeBase64Payload(resp.ClientData)
      p == parseRegistration(regData.bytes[1])
      fail(e) == [reg |-> << >>, err |-> e]
  IN IF Expired(t, c) THEN fail(ErrChallengeExpired)
     ELSE IF regData.err # NoError THEN fail(regData.err)
     ELSE IF clientData.err # NoError THEN fail(clientData.err)
     ELSE IF p.err # NoError THEN fail(p.err)
     ELSE IF verifyRegistrationSignature(p.reg, p.sig[1], c.AppID, clientData.bytes[1]) # NoError
          THEN fail(verifyRegistrationSignature(p.reg, p.sig[1], c.AppID, clientData.bytes[1]))
     ELSE IF verifyAttestationCert(p.reg) # NoError
          THEN fail(verifyAttestationCert(p.reg))
     ELSE IF verifyClientData(clientData.bytes[1], c) # NoError
          THEN fail(verifyClientData(clientData.bytes[1], c))
     ELSE [reg |-> << p.reg >>, err |-> NoError]

\* register.go: Register(resp, c)
Register(resp, c, t) ==
  LET regData == decodeBase64Payload(resp.RegistrationData)
      clientData == decodeBase64Payload(resp.ClientData)
      p == parseRegistration(regData.bytes[1])
      fail(e) == [reg |-> << >>, err |-> e]
  IN IF Expired(t, c) THEN fail(ErrChallengeExpired)
     ELSE IF regData.err # NoError THEN fail(regData.err)
     ELSE IF clientData.err # NoError THEN fail(clientData.err)
     ELSE IF p.err # NoError THEN fail(p.err)
     ELSE IF verifyClientData(clientData.bytes[1], c) # NoError
          THEN fail(verifyClientData(clientData.bytes[1], c))
     ELSE IF verifyAttestationCert(p.reg) # NoError
          THEN fail(verifyAttestationCert(p.reg))
     ELSE IF verifyRegistrationSignature(p.reg, p.sig[1], c.AppID, clientData.bytes[1]) # NoError
          THEN fail(verifyRegistrationSignature(p.reg, p.sig[1], c.AppID, clientData.bytes[1]))
     ELSE [reg |-> << p.reg >>, err |-> NoError]

\* a nil config read as one that skips the attestation check
ConfigOrSkip(config) ==
  IF config = << >> THEN [SkipAttestationVerify |-> TRUE] ELSE config[1]

\* if config == nil { config = &RegistrationConfig{} }
ConfigOrDefault(config) ==
  IF config = << >> THEN [SkipAttestationVerify |-> FALSE] ELSE config[1]

\* Challenge.Register(resp, config)
Challenge_Register(c, resp, config, t) ==
  LET cfg == ConfigOrDefault(config)
      regData == decodeBase64Payload(resp.RegistrationData)
      clientData == decodeBase64Payload(resp.ClientData)
      p == parseRegistration(regData.bytes[1])
      fail(e) == [reg |-> << >>, err |-> e]
  IN IF Expired(t, c) THEN fail(ErrChallengeExpired)
     ELSE IF regData.err # NoError THEN fail(regData.err)
     ELSE IF clientData.err # NoError THEN fail(clientData.err)
     ELSE IF p.err # NoError THEN fail(p.err)
     ELSE IF verifyClientData(clientData.bytes[1], c) # NoError
          THEN fail(verifyClientData(clientData.bytes[1], c))
     ELSE IF verifyAttestationCertConfig(p.reg, cfg) # NoError
          THEN fail(verifyAttestationCertConfig(p.reg, cfg))
     ELSE IF verifyRegistrationSignature(p.reg, p.sig[1], c.AppID, clientData.bytes[1]) # NoError
          THEN fail(verifyRegistrationSignature(p.reg, p.sig[1], c.AppID, clientData.bytes[1]))
     ELSE [reg |-> << p.reg >>, err |-> NoError]

-----------------------------------------------------------------------------
(* challenge.go *)

NewChallenge(nonce, appID, trustedFacets, registeredKeys, t) ==
  [Challenge |-> nonce, Timestamp |-> t, AppID |-> appID,
   TrustedFacets |-> trustedFacets, RegisteredKeys |-> registeredKeys]

\* n, err := rand.Read(challenge) on challenge := make([]byte, 32): the
\* source fills the first n bytes and leaves the zeroes of make in the rest
randRead(source, n, err) ==
  [n |-> n, err |-> err,
   challenge |-> [i \in 1..ChallengeLen |-> IF i <= n THEN source[i] ELSE 0]]

ReadNothing(n) == n = 0

\* if n != 32
ReadShort(n) == n # ChallengeLen

NoChallenge == << >>

\* NewChallenge with the outcome of rand.Read as an input
NewChallengeRead(read, appID, trustedFacets, registeredKeys, t) ==
  IF read.err # NoError THEN [c |-> NoChallenge, err |-> read.err]
  ELSE IF ReadShort(read.n) THEN [c |-> NoChallenge, err |-> ErrRandomGen]
  ELSE [c |-> << NewChallenge(read.challenge, appID, trustedFacets,
                              registeredKeys, t) >>,
        err |-> NoError]

-----------------------------------------------------------------------------
(* The request messages: part_010 (RegisterRequest), part_017 (SignRequest) *)

\* for _, r := range c.RegisteredKeys: one entry per registration, in order
RegisteredKeysOf(c) ==
  [i \in 1..Len(c.RegisteredKeys) |->
     [Version |-> u2fVersion,
      KeyHandle |-> encodeBase64(c.RegisteredKeys[i].KeyHandle)]]

newRegisterRequest(c) ==
  [Version |-> u2fVersion, AppID |-> c.AppID,
   Challenge |-> encodeBase64(c.Challenge)]

Challenge_RegisterRequest(c) ==
  [AppID |-> c.AppID, RegisterRequests |-> << newRegisterRequest(c) >>,
   RegisteredKeys |-> RegisteredKeysOf(c)]

Challenge_SignRequest(c) ==
  [AppID |-> c.AppID, Challenge |-> encodeBase64(c.Challenge),
   RegisteredKeys |-> RegisteredKeysOf(c)]

\* part_016: KeyHandle: r.KeyHandle, the string of the Registration as it
\* is.  A string of the message is kept here as its bytes.
Challenge_SignRequest_KeyHandleString(c) ==
  [AppID |-> c.AppID, Challenge |-> encodeBase64(c.Challenge),
   RegisteredKeys |->
     [i \in 1..Len(c.RegisteredKeys) |->
        [Version |-> u2fVersion, KeyHandle |-> c.RegisteredKeys[i].KeyHandle]]]

-----------------------------------------------------------------------------
(* The values the model draws its inputs from *)

AppID == "http://localhost"

OriginA == << "h","t","t","p",":","/","/","a" >>
OriginB == << "h","t","t","p",":","/","/","b" >>
\* untrusted origins that share text with the trusted one
OriginPrefix == SubSeq(OriginA, 1, Len(OriginA) - 1)
OriginLonger == OriginA \o << ".", "b" >>
OriginSuffix == SubSeq(OriginA, 2, Len(OriginA))

TypEnrollment == "navigator.id.finishEnrollment"
TypAssertion == "navigator.id.getAssertion"

\* The challenge of TestVerifyClientDataWithChannelId, as bytes and as the
\* text the test's client data carries
TestChallenge ==
  << 190, 170, 210, 233, 101, 195, 123, 82, 84, 179, 159, 220, 222, 46, 62, 46,
     66, 136, 29, 26, 254, 221, 117, 91, 221, 172, 238, 3, 148, 226, 124, 122 >>
TestChallengeText ==
  << "v","q","r","S","6","W","X","D","e","1","J","U","s","5","_","c",
     "3","i","4","-","L","k","K","I","H","R","r","-","3","X","V","b",
     "3","a","z","u","A","5","T","i","f","H","o" >>

\* rand.Read fills the nonce; the outcomes are kept apart by k
Nonce(k) ==
  IF k = 1 THEN TestChallenge
  ELSE [i \in 1..ChallengeLen |-> (37 * k + 11 * i) % 256]

\* Keys are numbered: 1 and 2 are token keys, 3 and 4 attestation keys.
\* The certificate of key 3 chains to a trusted root, that of key 4 does not.
CertOf(key) == [form |-> "cert", key |-> key, root |-> (key = 3), len |-> 8]
ElemNotCert == [form |-> "elem", key |-> 0, root |-> FALSE, len |-> 8]
BadDer == [form |-> "bad", key |-> 0, root |-> FALSE, len |-> 8]
NoDer == [form |-> "none", key |-> 0, root |-> FALSE, len |-> 0]

\* The registration of token key k, with key handle <<k>>
RegOf(k, n) ==
  [KeyHandle |-> << k >>, PubKey |-> k, Counter |-> n, AttestationCert |-> << >>]

\* binary.BigEndian.PutUint32
CounterBytes(n) ==
  << (n \div 16777216) % 256, (n \div 65536) % 256, (n \div 256) % 256, n % 256 >>

\* asn1.Marshal of the signature of `signer` over `digest`, followed by
\* `rest` more bytes
SigDer(form, signer, digest, rest) ==
  [form |-> form, signer |-> signer, digest |-> digest, rest |-> rest,
   len |-> IF form = "none" THEN 0 ELSE 8 + rest]

UnrelatedDigest == Sum256([other |-> TRUE])

\* The challenge text a client may send back when the request carried ch
ChallengeText(kind, ch) ==
  CASE kind = "good" -> ch
    [] kind = "padded" -> ch \o << "=" >>
    [] kind = "cut" -> SubSeq(ch, 1, Len(ch) - 1)
    [] kind = "flip" -> [ch EXCEPT ![1] = IF @ = "A" THEN "B" ELSE "A"]
    [] kind = "other" -> << "A" >> \o SubSeq(ch, 1, Len(ch) - 1)

ClientDataBytes(f, ch) ==
  [json |-> f.json, Typ |-> f.typ, Challenge |-> ChallengeText(f.chal, ch),
   Origin |-> f.origin]

Payload(ok, bytes) == [b64 |-> ok, bytes |-> bytes]

\* An authentication response, from the fields that describe it
SignatureDataBytes(f, ch) ==
  LET raw == << f.presence >> \o CounterBytes(f.ctr)
      digest == IF f.sigform = "stale" THEN UnrelatedDigest
                ELSE Sum256(AuthBuf(AppID, raw, ClientDataBytes(f, ch)))
      form == IF f.sigform \in {"stale", "trail"} THEN "sig" ELSE f.sigform
  IN IF f.short THEN [raw |-> SubSeq(raw, 1, 4), der |-> SigDer("none", 0, UnrelatedDigest, 0)]
     ELSE [raw |-> raw,
           der |-> SigDer(form, f.signer, digest, IF f.sigform = "trail" THEN 1 ELSE 0)]

SignResponse(f, ch) ==
  [KeyHandle |-> encodeBase64(<< f.kh >>),
   SignatureData |-> Payload(f.sdb64, SignatureDataBytes(f, ch)),
   ClientData |-> Payload(f.cdb64, ClientDataBytes(f, ch))]

HonestAuth ==
  [kh |-> 1, signer |-> 1, sigform |-> "sig", presence |-> 1, ctr |-> 1,
   short |-> FALSE, sdb64 |-> TRUE, cdb64 |-> TRUE, json |-> TRUE,
   typ |-> TypAssertion, chal |-> "good", origin |-> OriginA]

\* A registration response, from the fields that describe it
RegistrationDataBytes(f, ch) ==
  LET pk == IF f.pkvalid THEN ellipticMarshal(f.kh) ELSE [i \in 1..65 |-> 4]
      head == << f.reserved >> \o pk \o << f.khlen >> \o << f.kh >>
      digest == IF f.sigform = "stale" THEN UnrelatedDigest
                ELSE Sum256(RegBuf(AppID, ClientDataBytes(f, ch), << f.kh >>,
                                   ellipticMarshal(f.kh)))
      form == IF f.sigform = "stale" THEN "sig" ELSE f.sigform
  IN IF f.short THEN [head |-> SubSeq(head, 1, 67), cert |-> NoDer,
                      sig |-> SigDer("none", 0, UnrelatedDigest, 0)]
     ELSE IF f.cert.form = "none"
          THEN [head |-> head, cert |-> NoDer,
                sig |-> SigDer("none", 0, UnrelatedDigest, 0)]
     ELSE [head |-> head, cert |-> f.cert,
           sig |-> SigDer(form, f.signer, digest, 0)]

RegisterResponse(f, ch) ==
  [RegistrationData |-> Payload(f.rdb64, RegistrationDataBytes(f, ch)),
   ClientData |-> Payload(f.cdb64, ClientDataBytes(f, ch))]

HonestReg ==
  [kh |-> 1, reserved |-> 5, pkvalid |-> TRUE, khlen |-> 1, cert |-> CertOf(3),
   signer |-> 3, sigform |-> "sig", short |-> FALSE, rdb64 |-> TRUE,
   cdb64 |-> TRUE, json |-> TRUE, typ |-> TypEnrollment, chal |-> "good",
   origin |-> OriginA]

-----------------------------------------------------------------------------
(* What is remembered of the latest verification call *)

NoCall ==
  [op |-> "none", f |-> << >>, config |-> << >>, reg |-> << >>, ctr |-> 0,
   t |-> 0, err |-> NoError, newCounter |-> 0, out |-> << >>]

\* a call that returns (newCounter, err)
CounterCall(op, f, reg, ctr, t, r) ==
  [op |-> op, f |-> << f >>, config |-> << >>, reg |-> << reg >>, ctr |-> ctr,
   t |-> t, err |-> r.err, newCounter |-> r.newCounter, out |-> << >>]

\* a call that returns (*Registration, err)
RegistrationCall(op, f, config, t, r) ==
  [op |-> op, f |-> << f >>, config |-> config, reg |-> << >>, ctr |-> 0,
   t |-> t, err |-> r.err, newCounter |-> 0, out |-> r.reg]

NoHist == [n |-> 0, ok |-> 0, failed |-> FALSE, okAfterFail |-> FALSE]

\* no token takes part in the calls
NoVirtualKey == << >>

\* the verifications made with the challenge now in the session
\* the session's handlers keep the outcome of a call, not its input
Outcome(op, err) == [NoCall EXCEPT !.op = op, !.err = err]

Verified(h, err) ==
  IF err = NoError
  THEN [h EXCEPT !.ok = IF @ < 2 THEN @ + 1 ELSE @,
                 !.okAfterFail = @ \/ h.failed]
  ELSE [h EXCEPT !.failed = TRUE]

-----------------------------------------------------------------------------
(* The verification entry points applied to one drawn input *)

Apply(m, f) == [f EXCEPT ![m.field] = m.value]

\* the ways a response may differ from the one an honest token gives
AuthMods ==
  << [field |-> "kh", value |-> 2], [field |-> "kh", value |-> 9],
     [field |-> "signer", value |-> 2],
     [field |-> "sigform", value |-> "stale"], [field |-> "sigform", value |-> "bad"],
     [field |-> "sigform", value |-> "trail"], [field |-> "sigform", value |-> "none"],
     [field |-> "presence", value |-> 0], [field |-> "presence", value |-> 2],
     [field |-> "presence", value |-> 3],
     [field |-> "short", value |-> TRUE],
     [field |-> "sdb64", value |-> FALSE], [field |-> "cdb64", value |-> FALSE],
     [field |-> "json", value |-> FALSE],
     [field |-> "typ", value |-> TypEnrollment], [field |-> "typ", value |-> ""],
     [field |-> "chal", value |-> "padded"], [field |-> "chal", value |-> "cut"],
     [field |-> "chal", value |-> "flip"], [field |-> "chal", value |-> "other"],
     [field |-> "origin", value |-> OriginPrefix], [field |-> "origin", value |-> OriginLonger],
     [field |-> "origin", value |-> OriginSuffix], [field |-> "origin", value |-> OriginB] >>
  \o [n \in 1..(MaxCounter + 1) |-> [field |-> "ctr", value |-> n - 1]]
  \* counters whose four bytes differ: 00 00 00 06, 00 00 01 02, 01 02 03 04
  \o << [field |-> "ctr", value |-> 6], [field |-> "ctr", value |-> 258],
        [field |-> "ctr", value |-> 16909060] >>

RegMods ==
  << [field |-> "kh", value |-> 1], [field |-> "kh", value |-> 2],
     [field |-> "reserved", value |-> 4],
     [field |-> "pkvalid", value |-> FALSE],
     [field |-> "khlen", value |-> 200],
     [field |-> "cert", value |-> CertOf(4)], [field |-> "cert", value |-> ElemNotCert],
     [field |-> "cert", value |-> BadDer], [field |-> "cert", value |-> NoDer],
     [field |-> "signer", value |-> 4], [field |-> "signer", value |-> 1],
     [field |-> "sigform", value |-> "stale"], [field |-> "sigform", value |-> "bad"],
     [field |-> "sigform", value |-> "none"],
     [field |-> "short", value |-> TRUE],
     [field |-> "rdb64", value |-> FALSE], [field |-> "cdb64", value |-> FALSE],
     [field |-> "json", value |-> FALSE],
     [field |-> "typ", value |-> TypAssertion], [field |-> "typ", value |-> ""],
     [field |-> "chal", value |-> "padded"], [field |-> "chal", value |-> "cut"],
     [field |-> "chal", value |-> "flip"], [field |-> "chal", value |-> "other"],
     [field |-> "origin", value |-> OriginPrefix], [field |-> "origin", value |-> OriginLonger],
     [field |-> "origin", value |-> OriginSuffix], [field |-> "origin", value |-> OriginB] >>

\* responses that differ from the honest one in at most two ways
AuthInputs ==
  { Apply(AuthMods[i], Apply(AuthMods[j], HonestAuth)) :
      i \in 1..Len(AuthMods), j \in 1..Len(AuthMods) }

RegInputs ==
  { Apply(RegMods[i], Apply(RegMods[j], HonestReg)) :
      i \in 1..Len(RegMods), j \in 1..Len(RegMods) }

Configs ==
  { << >>, << [SkipAttestationVerify |-> FALSE] >>, << [SkipAttestationVerify |-> TRUE] >> }

FacetLists == { << >>, << OriginA >>, << OriginB, OriginA >> }

\* the registrations a challenge may hold: key 1 with counter n, alone or
\* next to key 2
KeyLists ==
  { << >> } \cup
  UNION { { << RegOf(1, n) >>, << RegOf(1, n), RegOf(2, 0) >>, << RegOf(2, 0), RegOf(1, n) >> } :
            n \in 0..MaxCounter }

\* the counter the caller keeps for the keys in the list
CounterFor(keys) ==
  IF keys = << >> THEN 0
  ELSE IF keys[1].PubKey = 1 THEN keys[1].Counter ELSE keys[Len(keys)].Counter

InitVerify ==
  /\ api = "verify"
  /\ now \in {0, timeout, timeout + 1}
  /\ \E facets \in FacetLists, keys \in KeyLists :
       /\ challenge = << NewChallenge(Nonce(1), AppID, facets, keys, 0) >>
       /\ store = keys
       /\ counter = CounterFor(keys)
       /\ \/ /\ keys = << >>
             /\ \E f \in RegInputs, config \in Configs :
                  arg = << [kind |-> "register", f |-> f, config |-> config] >>
          \/ \E f \in AuthInputs :
               arg = << [kind |-> "authenticate", f |-> f, config |-> << >>] >>
  /\ last = NoCall
  /\ hist = NoHist
  /\ vk = NoVirtualKey

VerifyRegister ==
  /\ api = "verify" /\ last.op = "none"
  /\ arg[1].kind = "register" /\ arg[1].config = << >>
  /\ LET c == challenge[1]
         r == Register(RegisterResponse(arg[1].f, TestChallengeText), c, now)
     IN last' = RegistrationCall("Register", arg[1].f, << >>, now, r)
  /\ UNCHANGED <<now, challenge, store, counter, api, arg, hist, vk>>

VerifyChallengeRegister ==
  /\ api = "verify" /\ last.op = "none"
  /\ arg[1].kind = "register"
  /\ LET c == challenge[1]
         r == Challenge_Register(c, RegisterResponse(arg[1].f, TestChallengeText),
                                 arg[1].config, now)
     IN last' = RegistrationCall("Challenge.Register", arg[1].f, arg[1].config, now, r)
  /\ UNCHANGED <<now, challenge, store, counter, api, arg, hist, vk>>

VerifyRegistrationAuthenticate ==
  /\ api = "verify" /\ last.op = "none"
  /\ arg[1].kind = "authenticate"
  /\ \E i \in 1..Len(store) :
       LET c == challenge[1]
           r == Registration_Authenticate(store[i], SignResponse(arg[1].f, TestChallengeText),
                                          c, counter, now)
       IN last' = CounterCall("Registration.Authenticate", arg[1].f, store[i],
                              counter, now, r)
  /\ UNCHANGED <<now, challenge, store, counter, api, arg, hist, vk>>

VerifySignRequestMessageAuthenticate ==
  /\ api = "verify" /\ last.op = "none"
  /\ arg[1].kind = "authenticate"
  /\ LET c == challenge[1]
         sr == [registrations |-> store, challenge |-> c]
         r == SignRequestMessage_Authenticate(sr, SignResponse(arg[1].f, TestChallengeText),
                                              counter, now)
     IN last' = [CounterCall("SignRequestMessage.Authenticate", arg[1].f,
                             NoRegistration, counter, now, r) EXCEPT !.reg = << >>]
  /\ UNCHANGED <<now, challenge, store, counter, api, arg, hist, vk>>

VerifyChallengeAuthenticate ==
  /\ api = "verify" /\ last.op = "none"
  /\ arg[1].kind = "authenticate"
  /\ LET c == challenge[1]
         r == Challenge_Authenticate(c, SignResponse(arg[1].f, TestChallengeText), now)
     IN /\ last' = RegistrationCall("Challenge.Authenticate", arg[1].f, << >>, now, r)
        /\ challenge' =
             << Challenge_AfterAuthenticate(
                  c, SignResponse(arg[1].f, TestChallengeText), now) >>
  /\ UNCHANGED <<now, store, counter, api, arg, hist, vk>>

NextVerify ==
  \/ VerifyRegister
  \/ VerifyChallengeRegister
  \/ VerifyRegistrationAuthenticate
  \/ VerifySignRequestMessageAuthenticate
  \/ VerifyChallengeAuthenticate

SpecVerify == InitVerify /\ [][NextVerify]_vars

-----------------------------------------------------------------------------
(* The caller: a session that holds one challenge, and the store it keeps *)

\* an honest client answers the request built from the challenge, which
\* carries encodeBase64(c.Challenge)
RequestText(c) == encodeBase64(c.Challenge)

RegisterAnswers ==
  { HonestReg, [HonestReg EXCEPT !.kh = 2], [HonestReg EXCEPT !.chal = "other"] }

SignAnswers ==
  { [HonestAuth EXCEPT !.ctr = n] : n \in 0..MaxCounter }
  \cup { [HonestAuth EXCEPT !.chal = "other"],
         [HonestAuth EXCEPT !.kh = 2, !.signer = 2] }

\* the stored registrations with r in place of those that carry its key handle
Updated(registrations, r) ==
  [i \in 1..Len(registrations) |->
     IF registrations[i].KeyHandle = r.KeyHandle THEN r ELSE registrations[i]]

Init ==
  /\ api \in {"counter", "registration", "u2fdemo"}
  /\ now = 0
  /\ challenge = << >>
  /\ store = << >>
  /\ counter = 0
  /\ arg = << >>
  /\ last = NoCall
  /\ hist = NoHist
  /\ vk = NoVirtualKey

Tick ==
  /\ api # "verify"
  /\ now < MaxTime
  /\ now' = now + 1
  /\ UNCHANGED <<challenge, store, counter, api, arg, last, hist, vk>>

\* registerRequest / signRequest: a new challenge replaces the one in the
\* session; it holds the registrations stored at that moment
RequestChallenge ==
  /\ api # "verify"
  /\ hist.n < MaxChallenges
  /\ challenge' = << NewChallenge(Nonce(hist.n + 1), AppID, << OriginA >>, store, now) >>
  /\ hist' = [NoHist EXCEPT !.n = hist.n + 1]
  /\ UNCHANGED <<now, store, counter, api, arg, last, vk>>

\* registerResponse with Register(resp, c): one registration is kept, and
\* the counter starts again at 0
registerResponse ==
  /\ api = "counter"
  /\ challenge # << >>
  /\ \E f \in RegisterAnswers :
       LET c == challenge[1]
           r == Register(RegisterResponse(f, RequestText(c)), c, now)
       IN /\ last' = Outcome("Register", r.err)
          /\ hist' = Verified(hist, r.err)
          /\ IF r.err = NoError
             THEN store' = r.reg /\ counter' = 0
             ELSE UNCHANGED <<store, counter>>
  /\ UNCHANGED <<now, challenge, api, arg, vk>>

\* signResponse with reg.Authenticate(resp, c, counter): counter = newCounter
signResponse ==
  /\ api = "counter"
  /\ challenge # << >>
  /\ store # << >>
  /\ \E f \in SignAnswers :
       LET c == challenge[1]
           r == Registration_Authenticate(store[1], SignResponse(f, RequestText(c)),
                                          c, counter, now)
       IN /\ last' = [Outcome("Registration.Authenticate", r.err)
                        EXCEPT !.newCounter = r.newCounter]
          /\ hist' = Verified(hist, r.err)
          /\ counter' = IF r.err = NoError THEN r.newCounter ELSE counter
  /\ UNCHANGED <<now, challenge, store, api, arg, vk>>

\* registerResponse with challenge.Register(resp, config): the registration
\* is appended to those stored
registerResponseAppend ==
  /\ api \in {"registration", "u2fdemo"}
  /\ challenge # << >>
  /\ Len(store) < MaxRegistrations
  /\ \E f \in RegisterAnswers :
       LET c == challenge[1]
           config == << [SkipAttestationVerify |-> TRUE] >>
           r == Challenge_Register(c, RegisterResponse(f, RequestText(c)), config, now)
       IN /\ last' = Outcome("Challenge.Register", r.err)
          /\ hist' = Verified(hist, r.err)
          /\ IF r.err = NoError
             THEN store' = store \o r.reg /\ counter' = 0
             ELSE UNCHANGED <<store, counter>>
  /\ UNCHANGED <<now, challenge, api, arg, vk>>

\* signResponse with challenge.Authenticate(resp): the returned registration
\* is stored in place of the one with its key handle
signResponseStore ==
  /\ api = "registration"
  /\ challenge # << >>
  /\ store # << >>
  /\ \E f \in SignAnswers :
       LET c == challenge[1]
           r == Challenge_Authenticate(c, SignResponse(f, RequestText(c)), now)
       IN /\ last' = [Outcome("Challenge.Authenticate", r.err) EXCEPT !.out = r.reg]
          /\ hist' = Verified(hist, r.err)
          /\ store' = IF r.err = NoError THEN Updated(store, r.reg[1]) ELSE store
  /\ UNCHANGED <<now, challenge, counter, api, arg, vk>>

\* u2fdemo/main.go, signResponse: newCounter, err := challenge.Authenticate(
\* signResp); the returned registration is logged and written nowhere
signResponseLogged ==
  /\ api = "u2fdemo"
  /\ challenge # << >>
  /\ store # << >>
  /\ \E f \in SignAnswers :
       LET c == challenge[1]
           r == Challenge_Authenticate(c, SignResponse(f, RequestText(c)), now)
       IN /\ last' = [Outcome("Challenge.Authenticate", r.err) EXCEPT !.out = r.reg]
          /\ hist' = Verified(hist, r.err)
  /\ UNCHANGED <<now, challenge, store, counter, api, arg, vk>>

Next ==
  \/ Tick
  \/ RequestChallenge
  \/ registerResponse
  \/ signResponse
  \/ registerResponseAppend
  \/ signResponseStore
  \/ signResponseLogged

Spec == Init /\ [][Next]_vars

-----------------------------------------------------------------------------
(* The demo server under concurrent requests: net/http runs every handler
   in a goroutine of its own, and challenge, registration and counter are
   package variables that no lock guards.  A signResponse request reads
   counter when it calls Authenticate and writes it after the call. *)

Handlers == {1, 2}

InitServe ==
  /\ api = "serve"
  /\ now = 0
  /\ store = << RegOf(1, 0) >>
  /\ challenge = << NewChallenge(Nonce(1), AppID, << OriginA >>, store, 0) >>
  /\ counter \in 0..MaxCounter
  /\ arg \in [Handlers -> { [pc |-> "decoded", f |-> f, newCounter |-> 0, err |-> NoError] :
                              f \in SignAnswers }]
  /\ last = NoCall
  /\ hist = NoHist
  /\ vk = NoVirtualKey

\* newCounter, err := reg.Authenticate(signResp, *challenge, counter)
ServeAuthenticate(h) ==
  /\ api = "serve"
  /\ arg[h].pc = "decoded"
  /\ LET c == challenge[1]
         r == Registration_Authenticate(store[1], SignResponse(arg[h].f, RequestText(c)),
                                        c, counter, now)
     IN arg' = [arg EXCEPT ![h] = [pc |-> "authenticated", f |-> arg[h].f,
                                  newCounter |-> r.newCounter, err |-> r.err]]
  /\ UNCHANGED <<now, challenge, store, counter, api, last, hist, vk>>

\* if err == nil { counter = newCounter; w.Write("success"); return }
ServeSuccess(h) ==
  /\ api = "serve"
  /\ arg[h].pc = "authenticated" /\ arg[h].err = NoError
  /\ counter' = arg[h].newCounter
  /\ arg' = [arg EXCEPT ![h].pc = "done"]
  /\ last' = [Outcome("Registration.Authenticate", NoError)
                EXCEPT !.newCounter = arg[h].newCounter]
  /\ UNCHANGED <<now, challenge, store, api, hist, vk>>

\* http.Error(w, "error verifying response", ...)
ServeError(h) ==
  /\ api = "serve"
  /\ arg[h].pc = "authenticated" /\ arg[h].err # NoError
  /\ arg' = [arg EXCEPT ![h].pc = "done"]
  /\ last' = Outcome("Registration.Authenticate", arg[h].err)
  /\ UNCHANGED <<now, challenge, store, counter, api, hist, vk>>

NextServe ==
  \/ \E h \in Handlers : ServeAuthenticate(h)
  \/ \E h \in Handlers : ServeSuccess(h)
  \/ \E h \in Handlers : ServeError(h)

SpecServe == InitServe /\ [][NextServe]_vars

-----------------------------------------------------------------------------
(* Properties *)

TheChallenge == challenge[1]

\* the fields of the response of the latest call
F == last.f[1]

Called == last.op # "none"

AuthOps ==
  {"Registration.Authenticate", "SignRequestMessage.Authenticate", "Challenge.Authenticate"}

RegOps == {"Register", "Challenge.Register"}

NotExpiredAtCall == last.t - TheChallenge.Timestamp <= timeout

\* the positions of the stored registrations whose key handle the response names
Matching == { i \in 1..Len(store) : store[i].KeyHandle = << F.kh >> }

MatchedReg == store[CHOOSE i \in Matching : TRUE]

\* the signature data of the response, as the verifier parses it
Parsed == parseSignResponse(SignatureDataBytes(F, TestChallengeText))

OriginTrusted ==
  \E i \in 1..Len(TheChallenge.TrustedFacets) : TheChallenge.TrustedFacets[i] = F.origin

ChallengeEchoed == ChallengeText(F.chal, TestChallengeText) = TestChallengeText

\* the errors of the steps that come before the client-data check
EarlierErrors ==
  { ErrChallengeExpired, ErrWrongKeyHandle, ErrBase64, ErrDataShort,
    ErrInvalidPresense, ErrASN1, ErrTrailingData, ErrCounterLow,
    ErrInvalidReservedByte, ErrInvalidPublicKey, ErrInvalidKeyHandle, ErrX509Parse }

\* the response is the honest one but for its client data's typ, challenge
\* and origin
HonestButClientData ==
  IF last.op \in AuthOps
  THEN F = [HonestAuth EXCEPT !.typ = F.typ, !.chal = F.chal, !.origin = F.origin]
  ELSE F = [HonestReg EXCEPT !.typ = F.typ, !.chal = F.chal, !.origin = F.origin]

\* the call is made in time and, for authenticate, with the one stored
\* registration of key 1 whose counter the honest response reaches
Benign ==
  /\ NotExpiredAtCall
  /\ last.op \in AuthOps => Len(store) = 1 /\ store[1].Counter <= HonestAuth.ctr

\* C1: for an unexpired challenge and a known key handle, a response whose
\* signature data parses and whose counter is below the stored counter (the
\* counter the caller passed, or the Counter of the matched registration)
\* fails with "counter not increasing", whatever its signature.
C1_LowCounterIsReported ==
  ( /\ last.op \in AuthOps
    /\ NotExpiredAtCall
    /\ IF last.op = "Registration.Authenticate"
       THEN last.reg[1].KeyHandle = << F.kh >>
       ELSE Matching # {}
    /\ F.sdb64 /\ F.cdb64
    /\ Parsed.err = NoError
    /\ Parsed.ar.Counter <
         (IF last.op = "Challenge.Authenticate" THEN MatchedReg.Counter ELSE last.ctr) )
  => last.err = ErrCounterLow

\* C2: over the authenticate calls of a caller that stores what a successful
\* call returns and nothing after a failure, no stored counter decreases.
C2_StoredCounterNeverDecreases ==
  [][ last'.op \in AuthOps =>
        /\ counter' >= counter
        /\ Len(store') = Len(store)
        /\ \A i \in 1..Len(store) : store'[i].Counter >= store[i].Counter ]_vars

C4_AtMostOneSuccessPerChallenge == hist.ok <= 1

\* C5: once a verification call with a challenge has failed, no later call
\* with that challenge succeeds.
C5_NoSuccessAfterFailure == ~ hist.okAfterFail

\* C6: a response whose origin equals no trusted facet is never accepted; it
\* fails an earlier step or fails with "untrusted facet id", never with
\* "challenge does not match" and never at a later step, and a response that
\* is honest but for its client data fails with "untrusted facet id".
C6_UntrustedOriginRejected ==
  (Called /\ ~ OriginTrusted) =>
    /\ last.err \in EarlierErrors \cup {ErrJSON, ErrUntrustedFacet}
    /\ (HonestButClientData /\ Benign) => last.err = ErrUntrustedFacet

C6_Witness ==
  /\ last.op = "Register"
  /\ TheChallenge.TrustedFacets = << OriginB, OriginA >>
  /\ F.origin = OriginLonger
  /\ F.chal = "flip"
  /\ last.err = ErrUntrustedFacet

\* C7: for client data with a trusted origin, the challenge field passes
\* exactly when it is the unpadded base64url text of the nonce: any other
\* text fails with "challenge does not match" unless an earlier step fails,
\* and a response that is honest but for that text is accepted exactly when
\* the text is the right one.
C7_ChallengeFieldExact ==
  (Called /\ OriginTrusted /\ F.json /\ F.cdb64) =>
    /\ ChallengeEchoed => last.err # ErrChallengeMismatch
    /\ ~ ChallengeEchoed => last.err \in EarlierErrors \cup {ErrChallengeMismatch}
    /\ (HonestButClientData /\ Benign) =>
         /\ last.err = NoError <=> ChallengeEchoed
         /\ ~ ChallengeEchoed => last.err = ErrChallengeMismatch

C7_Witness ==
  /\ last.op = "Registration.Authenticate"
  /\ OriginTrusted
  /\ HonestButClientData /\ Benign
  /\ F.chal = "padded"
  /\ last.err = ErrChallengeMismatch

\* C8: a call succeeds only for client data whose typ is the tag of the
\* call's phase.
C8_TypIsOfThePhase ==
  (Called /\ last.err = NoError) =>
    F.typ = (IF last.op \in AuthOps THEN TypAssertion ELSE TypEnrollment)

\* C9: with an unexpired challenge, authenticate fails with "wrong key
\* handle" when no registration has the key handle of the response, and
\* otherwise gives the result of checking the response against the
\* registration that has it.
C9_ChecksTheMatchedRegistration ==
  (last.op \in {"Challenge.Authenticate", "SignRequestMessage.Authenticate"}
     /\ NotExpiredAtCall) =>
    IF Matching = {} THEN last.err = ErrWrongKeyHandle
    ELSE last.err =
           Registration_Authenticate(
             MatchedReg, SignResponse(F, TestChallengeText), TheChallenge,
             IF last.op = "Challenge.Authenticate" THEN MatchedReg.Counter ELSE last.ctr,
             last.t).err

FlagSet == last.config # << >> /\ last.config[1].SkipAttestationVerify

\* C10: without SkipAttestationVerify (a nil config included) a response
\* whose certificate does not chain to a root is never accepted and yields
\* no Registration, and fails with the x509 verification error when nothing
\* else is wrong with it; with SkipAttestationVerify that error never
\* occurs, and the response of a token with an untrusted certificate is
\* accepted.
C10_AttestationVerifiedUnlessSkipped ==
  last.op \in RegOps =>
    /\ (~ FlagSet /\ ~ F.cert.root) => (last.err # NoError /\ last.out = << >>)
    /\ ( /\ ~ FlagSet
         /\ F = [HonestReg EXCEPT !.cert = CertOf(4), !.signer = F.signer]
         /\ NotExpiredAtCall /\ OriginTrusted )
       => last.err = ErrX509UnknownAuthority
    /\ FlagSet => last.err # ErrX509UnknownAuthority
    /\ ( /\ FlagSet
         /\ F = [HonestReg EXCEPT !.cert = CertOf(4), !.signer = 4]
         /\ NotExpiredAtCall /\ OriginTrusted )
       => (last.err = NoError /\ last.out # << >>)

C10_Witness ==
  /\ last.op = "Challenge.Register"
  /\ last.config = << >>
  /\ F = [HonestReg EXCEPT !.cert = CertOf(4), !.signer = 4]
  /\ last.err = ErrX509UnknownAuthority

ReturnedCounter ==
  IF last.op = "Challenge.Authenticate" THEN last.out[1].Counter ELSE last.newCounter

\* the decoded signature data of the response
SentSignatureData == SignatureDataBytes(F, TestChallengeText).raw

\* C12: the counter a successful authenticate returns is the value of bytes
\* 1..4 of the decoded signature data read big-endian, byte 1 most
\* significant; bytes 00 00 00 06 give 6.
C12_ReturnedCounterBigEndian ==
  (last.op \in AuthOps /\ last.err = NoError) =>
    /\ ReturnedCounter =
         SentSignatureData[2] * 16777216 + SentSignatureData[3] * 65536
         + SentSignatureData[4] * 256 + SentSignatureData[5]
    /\ SentSignatureData = << 1, 0, 0, 0, 6 >> => ReturnedCounter = 6

C12_Witness ==
  /\ last.op = "Registration.Authenticate"
  /\ last.err = NoError
  /\ SentSignatureData = << 1, 1, 2, 3, 4 >>
  /\ ReturnedCounter = 16909060

\* the registration the call is to be checked against is not in doubt: it
\* is the one the caller passed, or the one the lookup of C9 arrives at
\* because it stands last in the list
RegistrationSettled ==
  IF last.op = "Registration.Authenticate"
  THEN last.reg[1].KeyHandle = << F.kh >>
  ELSE Matching = {Len(store)}

SettledReg ==
  IF last.op = "Registration.Authenticate" THEN last.reg[1] ELSE store[Len(store)]

\* the counter the response's counter is compared with
StoredCounter ==
  IF last.op = "Challenge.Authenticate" THEN SettledReg.Counter ELSE last.ctr

\* the response is what the token of the settled registration sends, but for
\* the fields named
HonestBut(fields) ==
  \A k \in DOMAIN HonestAuth :
    k \notin fields =>
      F[k] = (IF k \in {"kh", "signer"} THEN SettledReg.PubKey ELSE HonestAuth[k])

InTimeAndTrusted == NotExpiredAtCall /\ OriginTrusted

\* C13: only a counter strictly below the stored one is rejected: an
\* otherwise valid response is accepted exactly when its counter is equal
\* to or above the stored counter, and fails with "counter not increasing"
\* otherwise.
C13_EqualCounterAccepted ==
  (last.op \in AuthOps /\ RegistrationSettled /\ InTimeAndTrusted /\ HonestBut({"ctr"})) =>
    /\ last.err = NoError <=> F.ctr >= StoredCounter
    /\ F.ctr < StoredCounter => last.err = ErrCounterLow

C13_Witness ==
  /\ last.op = "Challenge.Authenticate"
  /\ RegistrationSettled /\ InTimeAndTrusted /\ HonestBut({"ctr"})
  /\ F.ctr = 2 /\ StoredCounter = 2
  /\ last.err = NoError

\* C14: a response whose presence byte is 0 is never accepted and yields no
\* counter and no Registration; when nothing else is wrong with it, the
\* signature included, it fails with "user was not present".
C14_PresenceRequired ==
  (last.op \in AuthOps /\ F.presence = 0) =>
    /\ last.err # NoError /\ last.out = << >> /\ last.newCounter = 0
    /\ ( /\ RegistrationSettled /\ InTimeAndTrusted /\ HonestBut({"presence"})
         /\ F.ctr >= StoredCounter )
       => last.err = ErrUserNotPresent

C14_Witness ==
  /\ last.op = "Challenge.Authenticate"
  /\ F.presence = 0
  /\ RegistrationSettled /\ InTimeAndTrusted /\ HonestBut({"presence"})
  /\ last.err = ErrUserNotPresent

\* the counter the server holds for the token of the latest response: the
\* one global counter, or the Counter of the stored registrations that
\* carry the key handle of the returned one
PersistedCounters ==
  IF api = "counter" THEN {counter}
  ELSE { store[i].Counter :
           i \in { k \in 1..Len(store) : store[k].KeyHandle = last.out[1].KeyHandle } }

ReportedCounter ==
  IF api = "counter" THEN last.newCounter ELSE last.out[1].Counter

\* C37: in the demo server, after a signResponse request that authenticates,
\* the state kept for the token, the counter of the stored registration or
\* the global counter, is the counter of that response.
C37_DemoPersistsCounter ==
  ( /\ api \in {"counter", "registration", "u2fdemo"}
    /\ last.op \in {"Registration.Authenticate", "Challenge.Authenticate"}
    /\ last.err = NoError )
  => PersistedCounters = {ReportedCounter}

\* C38: however the demo server's signResponse requests for one token
\* interleave, the counter it keeps never decreases.
C38_PersistedCounterNeverDecreases ==
  [][api = "serve" => counter' >= counter]_vars

\* C29: no call of Register or Authenticate, accepted or refused, changes
\* the Challenge it is given: nonce, timestamp, relying-party id, trusted
\* origins and the known registrations with their counters stay as they
\* were, and the counter of an accepted response is in the returned
\* Registration only.
C29_ChallengeUnchangedByCalls ==
  [][ api = "verify" =>
        /\ challenge' = challenge
        /\ (last'.op = "Challenge.Authenticate" /\ last'.err = NoError) =>
             /\ last'.out[1].Counter = arg[1].f.ctr
             /\ challenge'[1].RegisteredKeys = store ]_vars

\* an accepted response with a counter above the stored one
C29_Witness ==
  /\ last.op = "Challenge.Authenticate"
  /\ last.err = NoError
  /\ store = << RegOf(1, 0) >>
  /\ F.ctr = 2 /\ last.out[1].Counter = 2
  /\ TheChallenge.RegisteredKeys[1].Counter = 0

\* C30: an authentication call made with an expired Challenge and a key
\* handle that matches no known registration fails with "challenge has
\* expired", not with "wrong key handle": expiry is checked before the
\* lookup.
C30_ExpiryBeforeLookup ==
  (last.op \in AuthOps /\ ~ NotExpiredAtCall /\ Matching = {}) =>
    last.err = ErrChallengeExpired

\* what parseSignResponse makes of the signature data of the response
ParsedResponse == parseSignResponse(SignatureDataBytes(F, TestChallengeText))

\* the call has come as far as parseSignResponse
ReachesParsing ==
  /\ last.op \in AuthOps
  /\ NotExpiredAtCall /\ RegistrationSettled
  /\ F.sdb64 /\ F.cdb64

\* C31: the counter is checked once the signature data is parsed and before
\* the client data and the signature are: a response that parses and whose
\* counter is below the stored one fails with "counter not increasing"
\* whatever its origin, challenge and signature are, and a response that
\* does not parse fails with the parser's error whatever its counter is.
C31_CounterAfterParsingBeforeVerifying ==
  ReachesParsing =>
    /\ (ParsedResponse.err = NoError /\ F.ctr < StoredCounter) =>
         last.err = ErrCounterLow
    /\ ParsedResponse.err # NoError =>
         (last.err = ParsedResponse.err /\ last.err # ErrCounterLow)

\* a counter below the stored one, in a response of an untrusted origin
\* with a signature over other data
C31_Witness ==
  /\ last.op = "Registration.Authenticate" /\ ReachesParsing
  /\ F.ctr = 1 /\ StoredCounter = 2
  /\ ~ OriginTrusted /\ F.sigform = "stale"
  /\ last.err = ErrCounterLow

\* a response too short to parse, with a counter below the stored one
C31_WitnessUnparsed ==
  /\ last.op = "Challenge.Authenticate" /\ ReachesParsing
  /\ F.short /\ F.ctr < StoredCounter
  /\ last.err = ErrDataShort

\* the signature of the response is one of the key of the registration the
\* call verifies it with, over the data of the response
SignatureVerifies ==
  /\ F.sigform = "sig"
  /\ F.signer = (IF last.op = "Registration.Authenticate"
                 THEN last.reg[1].PubKey ELSE store[Len(store)].PubKey)

\* the call has come as far as verifyAuthSignature
ReachesSignature ==
  /\ ReachesParsing /\ ParsedResponse.err = NoError
  /\ F.ctr >= StoredCounter
  /\ F.json /\ OriginTrusted /\ ChallengeEchoed

\* C32: the signature is verified before user presence is required: a
\* response with presence byte 0 and an invalid signature fails with
\* "invalid signature", and "user was not present" is the error only of
\* responses whose signature verifies.
C32_SignatureBeforePresence ==
  last.op \in AuthOps =>
    /\ (ReachesSignature /\ F.presence = 0 /\ ~ SignatureVerifies) =>
         last.err = ErrInvalidSig
    /\ last.err = ErrUserNotPresent => (F.presence = 0 /\ SignatureVerifies)

C32_Witness ==
  /\ last.op = "Challenge.Authenticate" /\ ReachesSignature
  /\ F.presence = 0 /\ F.sigform = "stale"
  /\ last.err = ErrInvalidSig

\* what parseRegistration makes of the registration data of the response
ParsedRegistration == parseRegistration(RegistrationDataBytes(F, TestChallengeText))

ClientDataErrors == {ErrJSON, ErrUntrustedFacet, ErrChallengeMismatch}

\* C33: Register reports the error of the first step that fails, the steps
\* being, in this order: expiry, decoding of registrationData, decoding of
\* clientData, parsing of the registration data, the client-data check, the
\* attestation check, the check of the registration signature.
C33_RegisterFirstFailingStep ==
  last.op \in RegOps =>
    IF ~ NotExpiredAtCall THEN last.err = ErrChallengeExpired
    ELSE IF ~ F.rdb64 \/ ~ F.cdb64 THEN last.err = ErrBase64
    ELSE IF ParsedRegistration.err # NoError THEN last.err = ParsedRegistration.err
    ELSE IF ~ F.json \/ ~ OriginTrusted \/ ~ ChallengeEchoed
         THEN last.err \in ClientDataErrors
    ELSE IF ~ FlagSet /\ ~ F.cert.root THEN last.err = ErrX509UnknownAuthority
    ELSE last.err \in {NoError, ErrX509Signature, ErrASN1}

\* an untrusted origin and a signature over other data
C33_Witness ==
  /\ last.op = "Register"
  /\ NotExpiredAtCall /\ TheChallenge.TrustedFacets # << >>
  /\ F = [HonestReg EXCEPT !.origin = OriginB, !.sigform = "stale"]
  /\ last.err = ErrUntrustedFacet

\* registration data that does not parse and an untrusted origin
C33_WitnessUnparsed ==
  /\ last.op = "Challenge.Register"
  /\ NotExpiredAtCall
  /\ F = [HonestReg EXCEPT !.origin = OriginB, !.reserved = 4]
  /\ last.err = ErrInvalidReservedByte

-----------------------------------------------------------------------------
(* The codec and the two parsers on their own: util.go, auth.go, register.go,
   registration.go *)

MaxBytes == 4

SampleBytes == {0, 1, 251, 255}

\* the byte strings of up to MaxBytes sample bytes, and the challenge of
\* the test vector
ByteStrings ==
  UNION {[1..n -> SampleBytes] : n \in 0..MaxBytes} \cup {TestChallenge}

PresenceBytes == {0, 1, 2, 3, 128, 129, 255}

CounterSamples == {<< 0, 0, 0, 6 >>, << 1, 2, 3, 4 >>, << 127, 255, 255, 255 >>}

NoSig == SigDer("none", 0, UnrelatedDigest, 0)

\* what may follow the five leading bytes of signature data
SigSamples ==
  {SigDer("sig", 1, UnrelatedDigest, 0), SigDer("sig", 1, UnrelatedDigest, 1),
   SigDer("sig", 1, UnrelatedDigest, 2), SigDer("bad", 0, UnrelatedDigest, 0),
   NoSig}

\* signature data: complete leading bytes and what follows, or fewer than
\* five bytes in all
SignatureDataInputs ==
  {[raw |-> << p >> \o c, der |-> d] :
     p \in PresenceBytes, c \in CounterSamples, d \in SigSamples}
  \cup {[raw |-> SubSeq(<< p, 0, 0, 0, 6 >>, 1, n), der |-> NoSig] :
          p \in PresenceBytes, n \in 0..4}

KeyHandleSamples == {<< >>, << 7 >>, << 7, 9 >>, [i \in 1..64 |-> i]}

HeadOf(first, pkvalid, khlen, kh) ==
  << first >> \o (IF pkvalid THEN ellipticMarshal(1) ELSE [i \in 1..65 |-> 4])
  \o << khlen >> \o kh

\* registration data: leading bytes with a key handle of the declared
\* length, then a first DER part and the bytes after it; or a key handle
\* declared longer than all that follows; or an input that ends within or
\* right after the key handle
RegistrationDataInputs ==
  {[head |-> HeadOf(first, pkvalid, Len(kh), kh), cert |-> c, sig |-> g] :
     first \in {5, 4, 0}, pkvalid \in BOOLEAN, kh \in KeyHandleSamples,
     c \in {CertOf(3), ElemNotCert, BadDer}, g \in SigSamples}
  \cup {rd \in {[head |-> HeadOf(first, pkvalid, khlen, kh), cert |-> c,
                   sig |-> NoSig] :
                    first \in {5, 4}, pkvalid \in BOOLEAN,
                    khlen \in {65, 200}, kh \in KeyHandleSamples,
                    c \in {CertOf(3), NoDer}} :
          rd.head[67] > RdLen(rd) - 67}
  \cup {[head |-> SubSeq(HeadOf(first, pkvalid, khlen, << 7, 9 >>), 1, n),
         cert |-> NoDer, sig |-> NoSig] :
          first \in {5, 4}, pkvalid \in BOOLEAN, khlen \in {2, 3},
          n \in {0, 1, 2, 34, 66, 67, 68, 69}}

\* []byte("Fake key handle")
FakeKeyHandle ==
  << 70, 97, 107, 101, 32, 107, 101, 121, 32, 104, 97, 110, 100, 108, 101 >>

CounterValues == {0, 7, 2147483647}

\* registrations that hold an attestation certificate
RegistrationInputs ==
  {[KeyHandle |-> kh, PubKey |-> k, Counter |-> n, AttestationCert |-> << c >>] :
     kh \in KeyHandleSamples \cup {FakeKeyHandle}, k \in {1, 2, 255},
     n \in CounterValues, c \in {CertOf(3), CertOf(4)}}

\* type fidoToken struct { KeyHandle, PublicKey, Certificate string;
\* Counter uint }
FidoToken ==
  [KeyHandle |-> "string", PublicKey |-> "string", Certificate |-> "string",
   Counter |-> "uint"]

\* the struct of the test, one with Counter uint32, one without Certificate
StructShapes ==
  {FidoToken, [FidoToken EXCEPT !.Counter = "uint32"],
   [FidoToken EXCEPT !.Certificate = "invalid"]}

\* what rand.Read can report: all 32 bytes, fewer, and either with or
\* without an error
RandomReads ==
  {randRead(Nonce(k), n, err) :
     k \in {1, 2}, n \in {0, 16, ChallengeLen - 1, ChallengeLen},
     err \in {NoError, ErrRandRead}}

MaxText == 5

\* texts as a client may send them: characters of the alphabet, '=' and a
\* character outside the alphabet
TextChars == {"A", "Q", "=", "!"}

Texts == UNION {[1..n -> TextChars] : n \in 0..MaxText}

InitParse ==
  /\ api = "parse"
  /\ now = 0 /\ challenge = << >> /\ store = << >> /\ counter = 0
  /\ \/ \E b \in ByteStrings : arg = << [kind |-> "bytes", v |-> b] >>
     \/ \E sd \in SignatureDataInputs :
          arg = << [kind |-> "signatureData", v |-> sd] >>
     \/ \E rd \in RegistrationDataInputs :
          arg = << [kind |-> "registrationData", v |-> rd] >>
     \/ \E reg \in RegistrationInputs, shape \in StructShapes :
          arg = << [kind |-> "registration", v |-> reg, shape |-> shape] >>
     \/ \E rr \in RandomReads, app \in {AppID, "http://other"},
           tf \in FacetLists, rk \in KeyLists :
          arg = << [kind |-> "random", v |-> rr, appID |-> app,
                    trustedFacets |-> tf, registeredKeys |-> rk] >>
     \/ \E s \in Texts : arg = << [kind |-> "text", v |-> s] >>
  /\ last = [op |-> "none"]
  /\ hist = NoHist
  /\ vk = NoVirtualKey

\* decodeBase64(encodeBase64(b))
ParseEncodeDecode ==
  /\ api = "parse" /\ last.op = "none"
  /\ arg[1].kind = "bytes"
  /\ last' = [op |-> "decodeBase64", text |-> encodeBase64(arg[1].v),
              r |-> decodeBase64(encodeBase64(arg[1].v))]
  /\ UNCHANGED <<now, challenge, store, counter, api, arg, hist, vk>>

ParseSignResponse ==
  /\ api = "parse" /\ last.op = "none"
  /\ arg[1].kind = "signatureData"
  /\ last' = [op |-> "parseSignResponse", r |-> parseSignResponse(arg[1].v)]
  /\ UNCHANGED <<now, challenge, store, counter, api, arg, hist, vk>>

ParseRegistration ==
  /\ api = "parse" /\ last.op = "none"
  /\ arg[1].kind = "registrationData"
  /\ last' = [op |-> "parseRegistration", r |-> parseRegistration(arg[1].v)]
  /\ UNCHANGED <<now, challenge, store, counter, api, arg, hist, vk>>

\* reg.MarshalBinary() of a parsed registration whose Counter the caller
\* has set since, then reg2.UnmarshalBinary
ParseMarshalUnmarshal ==
  /\ api = "parse" /\ last.op = "none"
  /\ arg[1].kind = "registrationData"
  /\ \E n \in CounterValues :
       LET parsed == parseRegistration(arg[1].v)
           reg == [parsed EXCEPT !.reg.Counter = n]
           buf == MarshalBinary(reg)
       IN /\ parsed.err = NoError
          /\ last' = [op |-> "UnmarshalBinary", reg |-> reg, buf |-> buf,
                      r |-> UnmarshalBinary(buf.data)]
  /\ UNCHANGED <<now, challenge, store, counter, api, arg, hist, vk>>

\* reg.MarshalStruct(&ft), then reg2.UnmarshalStruct(&ft) on a zero reg2
ParseMarshalUnmarshalStruct ==
  /\ api = "parse" /\ last.op = "none"
  /\ arg[1].kind = "registration"
  /\ LET ft == MarshalStruct(arg[1].v, arg[1].shape)
     IN last' = [op |-> "UnmarshalStruct", ft |-> ft,
                 r |-> UnmarshalStruct(ft.i, arg[1].shape)]
  /\ UNCHANGED <<now, challenge, store, counter, api, arg, hist, vk>>

\* NewChallenge(appID, trustedFacets, registeredKeys)
ParseNewChallenge ==
  /\ api = "parse" /\ last.op = "none"
  /\ arg[1].kind = "random"
  /\ last' = [op |-> "NewChallenge",
              r |-> NewChallengeRead(arg[1].v, arg[1].appID,
                                     arg[1].trustedFacets,
                                     arg[1].registeredKeys, now)]
  /\ UNCHANGED <<now, challenge, store, counter, api, arg, hist, vk>>

\* the Challenge of a successful NewChallenge
ChallengeOfArg ==
  NewChallengeRead(arg[1].v, arg[1].appID, arg[1].trustedFacets,
                   arg[1].registeredKeys, now)

\* c.RegisterRequest(), c.SignRequest() on the Challenge of NewChallenge;
\* keyHandles is []byte(key.KeyHandle) of every entry of the message
ParseRequest(op, m, keyHandles) ==
  /\ api = "parse" /\ last.op = "none"
  /\ arg[1].kind = "random"
  /\ ChallengeOfArg.err = NoError
  /\ last' = [op |-> op, c |-> ChallengeOfArg.c[1], r |-> m,
              keyHandles |-> keyHandles]
  /\ UNCHANGED <<now, challenge, store, counter, api, arg, hist, vk>>

ParseRegisterRequest ==
  LET m == Challenge_RegisterRequest(ChallengeOfArg.c[1])
  IN ParseRequest("RegisterRequest", m,
       [i \in 1..Len(m.RegisteredKeys) |-> BytesOfText(m.RegisteredKeys[i].KeyHandle)])

ParseSignRequest ==
  LET m == Challenge_SignRequest(ChallengeOfArg.c[1])
  IN ParseRequest("SignRequest", m,
       [i \in 1..Len(m.RegisteredKeys) |-> BytesOfText(m.RegisteredKeys[i].KeyHandle)])

ParseSignRequestKeyHandleString ==
  LET m == Challenge_SignRequest_KeyHandleString(ChallengeOfArg.c[1])
  IN ParseRequest("SignRequest", m,
       [i \in 1..Len(m.RegisteredKeys) |-> m.RegisteredKeys[i].KeyHandle])

\* decodeBase64(s) on a text as it came; padded is s as the loop leaves it
ParseDecodeText ==
  /\ api = "parse" /\ last.op = "none"
  /\ arg[1].kind = "text"
  /\ last' = [op |-> "decodeBase64(s)", padded |-> PadLoop(arg[1].v, 0),
              r |-> decodeBase64(arg[1].v)]
  /\ UNCHANGED <<now, challenge, store, counter, api, arg, hist, vk>>

NextParse ==
  \/ ParseEncodeDecode
  \/ ParseSignResponse
  \/ ParseRegistration
  \/ ParseMarshalUnmarshal
  \/ ParseMarshalUnmarshalStruct
  \/ ParseNewChallenge
  \/ ParseDecodeText
  \/ ParseRegisterRequest
  \/ ParseSignRequest
  \/ ParseSignRequestKeyHandleString

SpecParse == InitParse /\ [][NextParse]_vars

\* the input of the call
In == arg[1].v

-----------------------------------------------------------------------------
\* C15: decoding the encoding of any byte string, the empty one and those
\* whose length is no multiple of three included, succeeds and gives the
\* byte string back, and the encoding never holds the padding character.
C15_Base64RoundTrip ==
  last.op = "decodeBase64" =>
    /\ last.r.err = NoError
    /\ last.r.bytes = In
    /\ \A i \in 1..Len(last.text) : last.text[i] # "="
    /\ In = TestChallenge => last.text = TestChallengeText

C15_Witness ==
  /\ last.op = "decodeBase64"
  /\ Len(In) = 2
  /\ Len(last.text) = 3
  /\ last.r.bytes = In

\* C16: parseSignResponse takes a presence byte of 0 or 1 only: with any
\* other bit set (0x03, 0x81, ...) it fails with the invalid-presence error,
\* with 0 or 1 it never does, and the parsed presence flag is true exactly
\* when the byte is 1.
C16_PresenceByteZeroOrOne ==
  (last.op = "parseSignResponse" /\ SdLen(In) >= 5) =>
    /\ In.raw[1] \notin {0, 1} => last.r.err = ErrInvalidPresense
    /\ In.raw[1] \in {0, 1} => last.r.err # ErrInvalidPresense
    /\ last.r.err = NoError =>
         (last.r.ar.UserPresenceVerified <=> In.raw[1] = 1)

C16_Witness ==
  /\ last.op = "parseSignResponse"
  /\ SdLen(In) >= 5
  /\ In.raw[1] = 129
  /\ In.der.form = "sig" /\ In.der.rest = 0
  /\ last.r.err = ErrInvalidPresense

\* C17: parseSignResponse fails with the too-short error on every input of
\* fewer than 5 bytes, fails with the trailing-data error when the (r, s)
\* structure is followed by one or more bytes, and succeeds only when the
\* signature takes up exactly what follows the five leading bytes.
C17_SignatureFraming ==
  last.op = "parseSignResponse" =>
    /\ SdLen(In) < 5 => last.r.err = ErrDataShort
    /\ (SdLen(In) >= 5 /\ In.raw[1] \in {0, 1} /\ In.der.form = "sig"
        /\ In.der.rest >= 1) => last.r.err = ErrTrailingData
    /\ last.r.err = NoError =>
         (SdLen(In) >= 5 /\ In.der.form = "sig" /\ In.der.rest = 0)

C17_Witness ==
  /\ last.op = "parseSignResponse"
  /\ In.raw[1] = 1
  /\ In.der.form = "sig" /\ In.der.rest = 2
  /\ last.r.err = ErrTrailingData

\* the public key of the input is a point
PubKeyValid == ellipticUnmarshal(SubSeq(In.head, 2, 66)).ok

\* the key handle is declared longer than all that follows the length byte
DeclaredBeyondEnd == In.head[67] > RdLen(In) - 67

\* C18, as stated: parseRegistration fails with the too-short error on
\* every input shorter than 69 bytes whatever its first byte, and also when
\* the declared key-handle length exceeds the bytes that remain, and with
\* the reserved-byte error on every input of 69 bytes or more whose first
\* byte is not 0x05.
C18_TooShortAtEveryStep ==
  last.op = "parseRegistration" =>
    /\ RdLen(In) < 69 => last.r.err = ErrDataShort
    /\ (RdLen(In) >= 69 /\ In.head[1] = 5 /\ PubKeyValid /\ DeclaredBeyondEnd)
         => last.r.err = ErrDataShort
    /\ (RdLen(In) >= 69 /\ In.head[1] # 5)
         => last.r.err = ErrInvalidReservedByte

\* C18, amended: parseRegistration fails with the too-short error exactly
\* on the inputs shorter than 69 bytes, whatever their first byte; with the
\* reserved-byte error on every input of 69 bytes or more whose first byte
\* is not 0x05; and with the invalid-key-handle error exactly when an input
\* of 69 bytes or more, with first byte 0x05 and a valid public key,
\* declares a key handle longer than the bytes that follow the length byte.
C18_ShortReservedKeyHandle ==
  last.op = "parseRegistration" =>
    /\ last.r.err = ErrDataShort <=> RdLen(In) < 69
    /\ (RdLen(In) >= 69 /\ In.head[1] # 5)
         => last.r.err = ErrInvalidReservedByte
    /\ last.r.err = ErrInvalidKeyHandle <=>
         (RdLen(In) >= 69 /\ In.head[1] = 5 /\ PubKeyValid /\ DeclaredBeyondEnd)

C18_Witness ==
  /\ last.op = "parseRegistration"
  /\ RdLen(In) >= 69 /\ In.head[1] = 5 /\ PubKeyValid
  /\ In.head[67] = 200
  /\ last.r.err = ErrInvalidKeyHandle

C20_BinaryRoundTrip ==
  last.op = "UnmarshalBinary" =>
    /\ last.buf.err = NoError
    /\ last.r.err = NoError
    /\ last.r.raw = last.reg.raw
    /\ last.r.raw = << In >>
    /\ last.r.reg.KeyHandle = last.reg.reg.KeyHandle
    /\ last.r.reg.PubKey = last.reg.reg.PubKey
    /\ last.r.reg.AttestationCert = last.reg.reg.AttestationCert

C20_Witness ==
  /\ last.op = "UnmarshalBinary"
  /\ In.sig.form = "sig"
  /\ Len(last.reg.reg.KeyHandle) = 64
  /\ last.r.err = NoError
  /\ last.r.reg.KeyHandle = last.reg.reg.KeyHandle
  /\ last.r.raw = << In >>

\* C21: a registration that holds an attestation certificate, written with
\* MarshalStruct into a struct with string fields KeyHandle, PublicKey and
\* Certificate and a uint field Counter and read back with UnmarshalStruct,
\* comes back without error with the same key handle, public key,
\* attestation certificate and counter.
C21_StructRoundTrip ==
  (last.op = "UnmarshalStruct" /\ arg[1].shape = FidoToken) =>
    /\ last.ft.err = NoError
    /\ last.r.err = NoError
    /\ last.r.reg.KeyHandle = In.KeyHandle
    /\ last.r.reg.PubKey = In.PubKey
    /\ last.r.reg.AttestationCert = In.AttestationCert
    /\ last.r.reg.Counter = In.Counter

C21_Witness ==
  /\ last.op = "UnmarshalStruct" /\ arg[1].shape = FidoToken
  /\ In.KeyHandle = FakeKeyHandle /\ In.Counter = 7
  /\ Len(last.ft.i.PublicKey) = 87
  /\ last.r.err = NoError
  /\ last.r.reg = In

\* C27: NewChallenge returns a Challenge only when rand.Read reported no
\* error and 32 bytes, and then the nonce is those 32 bytes and the
\* relying-party id, trusted origins and known registrations are the ones
\* given; an error of the source is returned as it is, a short read without
\* one fails with ErrRandomGen, and in both cases no Challenge is returned.
C27_ChallengeOnlyFromFullRead ==
  (api = "parse" /\ last.op = "NewChallenge") =>
    /\ (In.err # NoError) => (last.r.c = NoChallenge /\ last.r.err = In.err)
    /\ (In.err = NoError /\ In.n < ChallengeLen) =>
         (last.r.c = NoChallenge /\ last.r.err = ErrRandomGen)
    /\ (last.r.c # NoChallenge) <=> (last.r.err = NoError)
    /\ (last.r.err = NoError) =>
         /\ In.n = ChallengeLen /\ In.err = NoError
         /\ Len(last.r.c[1].Challenge) = ChallengeLen
         /\ last.r.c[1].Challenge = In.challenge
         /\ last.r.c[1].AppID = arg[1].appID
         /\ last.r.c[1].TrustedFacets = arg[1].trustedFacets
         /\ last.r.c[1].RegisteredKeys = arg[1].registeredKeys

\* a read of 31 bytes without an error was refused
C27_Witness ==
  /\ api = "parse" /\ last.op = "NewChallenge"
  /\ In.err = NoError /\ In.n = ChallengeLen - 1
  /\ last.r.err = ErrRandomGen
  /\ Len(arg[1].registeredKeys) = 2

\* one entry per known registration, in the same order, each with the
\* base64url text of the key handle of that registration
MirrorsRegisteredKeys ==
  /\ Len(last.r.RegisteredKeys) = Len(last.c.RegisteredKeys)
  /\ \A i \in 1..Len(last.c.RegisteredKeys) :
       last.keyHandles[i] =
         BytesOfText(encodeBase64(last.c.RegisteredKeys[i].KeyHandle))

\* C28: the registration request carries the relying-party id and exactly
\* one register request with version "U2F_V2" and the base64url text of the
\* nonce, the authentication request carries the relying-party id and the
\* base64url text of the nonce, and both list one entry per known
\* registration, in order, with its base64url-encoded key handle.
C28_RequestsMirrorChallenge ==
  /\ (api = "parse" /\ last.op = "RegisterRequest") =>
       /\ last.r.AppID = last.c.AppID
       /\ Len(last.r.RegisterRequests) = 1
       /\ last.r.RegisterRequests[1].Challenge = encodeBase64(last.c.Challenge)
       /\ last.r.RegisterRequests[1].Version = "U2F_V2"
       /\ MirrorsRegisteredKeys
  /\ (api = "parse" /\ last.op = "SignRequest") =>
       /\ last.r.AppID = last.c.AppID
       /\ last.r.Challenge = encodeBase64(last.c.Challenge)
       /\ MirrorsRegisteredKeys

\* the number of characters the padding loop has appended
Appended == Len(last.padded) - Len(In)

\* C34: decodeBase64 appends '=' until the length of the text is a multiple
\* of 4, that is none, two or one character for a length that is 0, 2 or 3
\* modulo 4, and the unpadded encoding of any byte string then decodes; a
\* text whose length is 1 modulo 4 fails with the decoder's error.
C34_PaddedToMultipleOfFour ==
  (api = "parse" /\ last.op = "decodeBase64(s)") =>
    /\ Len(last.padded) % 4 = 0
    /\ SubSeq(last.padded, 1, Len(In)) = In
    /\ \A i \in (Len(In) + 1)..Len(last.padded) : last.padded[i] = "="
    /\ Len(In) % 4 = 0 => Appended = 0
    /\ Len(In) % 4 = 2 => Appended = 2
    /\ Len(In) % 4 = 3 => Appended = 1
    /\ (\E b \in ByteStrings : In = encodeBase64(b)) => last.r.err = NoError
    /\ Len(In) % 4 = 1 => last.r.err = ErrBase64

\* a text of five characters of the alphabet
C34_Witness ==
  /\ api = "parse" /\ last.op = "decodeBase64(s)"
  /\ Len(In) = 5 /\ \A i \in 1..5 : In[i] \in {"A", "Q"}
  /\ Appended = 3
  /\ last.r.err = ErrBase64

\* the encoding of two bytes, three characters
C34_WitnessDecoded ==
  /\ api = "parse" /\ last.op = "decodeBase64(s)"
  /\ In = encodeBase64(<< 0, 0 >>)
  /\ Appended = 1 /\ last.r.bytes = << 0, 0 >>

\* the error values of the two parsers
ParserErrors ==
  { ErrDataShort, ErrInvalidPresense, ErrASN1, ErrTrailingData,
    ErrInvalidReservedByte, ErrInvalidPublicKey, ErrInvalidKeyHandle,
    ErrX509Parse }

\* C35: parseRegistration and parseSignResponse read only inside their
\* input: every index and every slice bound they use lies within the slice
\* it is applied to, so each call ends in a result or in an error value and
\* never in a panic.
C35_ParsersReadWithinInput ==
  /\ (api = "parse" /\ last.op = "parseRegistration") =>
       /\ InRange(parseRegistrationReads(In))
       /\ last.r.err \in ParserErrors \cup {NoError}
  /\ (api = "parse" /\ last.op = "parseSignResponse") =>
       /\ InRange(parseSignResponseReads(In))
       /\ last.r.err \in ParserErrors \cup {NoError}

\* an input that ends right after the key-handle length byte, which
\* declares two bytes
C35_Witness ==
  /\ api = "parse" /\ last.op = "parseRegistration"
  /\ RdLen(In) = 67 /\ In.head[1] = 5 /\ In.head[67] = 2
  /\ last.r.err = ErrDataShort

\* the longest key handle of the inputs, read whole
C35_WitnessParsed ==
  /\ api = "parse" /\ last.op = "parseRegistration"
  /\ last.r.err = NoError /\ In.head[67] = 64
  /\ Len(parseRegistrationReads(In)) = 9

\* C36: the binary form of a Registration does not carry its counter: a
\* Registration with any Counter, marshalled with MarshalBinary and read
\* back with UnmarshalBinary, comes back with Counter 0.
C36_BinaryFormDropsCounter ==
  (api = "parse" /\ last.op = "UnmarshalBinary") =>
    /\ last.r.err = NoError
    /\ last.r.reg.Counter = 0

C36_Witness ==
  /\ api = "parse" /\ last.op = "UnmarshalBinary"
  /\ last.reg.reg.Counter = 7
  /\ last.r.err = NoError /\ last.r.reg.Counter = 0
  /\ last.r.reg.KeyHandle = last.reg.reg.KeyHandle

-----------------------------------------------------------------------------
(* The virtual key: part_015 (keys looked up by AppID and key handle; keys
   looked up by AppID) and virtualkey.go (no key is recorded) *)

ErrKeyAlreadyRegistered == "Key already registered for AppID: %s"
ErrKeyNotFound == "Key not found for AppID: %s"

Digit(n) == Alphabet[53 + n]

\* fmt.Sprintf("virtualkey-%d", len(vk.keys)), for fewer than ten keys
VirtualKeyHandle(n) ==
  << "v","i","r","t","u","a","l","k","e","y","-" >> \o << Digit(n) >>

\* "vk-" + string(len(vk.keys)): the integer is converted as a code point,
\* so the text ends in the byte n
VkHandle(n) == << 118, 107, 45, n >>

\* "testKeyHandle"
TestKeyHandle ==
  BytesOfText(<< "t","e","s","t","K","e","y","H","a","n","d","l","e" >>)

\* NewVirtualKey: an attestation key (key 4) with its self-signed
\* certificate, and no keys
NewVirtualKey ==
  [attestationKey |-> 4, attestationCertBytes |-> CertOf(4), keys |-> << >>]

\* for _, v := range vk.keys { if ... { return &v } }: the address of the
\* loop variable, that is of a copy of the first key that matches
getKeyByAppIDAndKeyHandle(v, appId, keyHandle) ==
  LET found == {i \in 1..Len(v.keys) :
                  v.keys[i].AppID = appId /\ v.keys[i].KeyHandle = keyHandle}
  IN IF found = {} THEN << >>
     ELSE << v.keys[CHOOSE i \in found : \A j \in found : i <= j] >>

getKeyByAppID(v, appId) ==
  LET found == {i \in 1..Len(v.keys) : v.keys[i].AppID = appId}
  IN IF found = {} THEN << >>
     ELSE << v.keys[CHOOSE i \in found : \A j \in found : i <= j] >>

\* json.Marshal(ClientData{Origin: req.AppID, Challenge: ...}); no typ
ClientDataOf(appId, challengeText) ==
  [json |-> TRUE, Typ |-> "", Challenge |-> challengeText, Origin |-> appId]

\* the registration buffer without the key handle
generateRegistrationBufNoKeyHandle(appId, clientData, keyHandle, pk) ==
  [rfu |-> 0, app |-> Sum256(appId), challenge |-> Sum256(clientData),
   kh |-> << >>, pk |-> pk]

\* generateRegistrationSig: 0 || appParam || challenge || keyHandle || pk
generateRegistrationBuf(appId, clientData, keyHandle, pk) ==
  [rfu |-> 0, app |-> Sum256(appId), challenge |-> Sum256(clientData),
   kh |-> keyHandle, pk |-> pk]

generateRegistrationSig(appId, clientData, keyHandle, pk, privateKey) ==
  SigDer("sig", privateKey,
         Sum256(generateRegistrationBuf(appId, clientData, keyHandle, pk)), 0)

\* generateAuthenticationSig: appParam || signatureData || challenge
generateAuthenticationSig(appId, clientData, signatureData, privateKey) ==
  SigDer("sig", privateKey,
         Sum256([app |-> Sum256(appId), raw |-> signatureData,
                 challenge |-> Sum256(clientData)]), 0)

\* binary.BigEndian.PutUint32
PutUint32(n) ==
  << (n \div 16777216) % 256, (n \div 65536) % 256, (n \div 256) % 256, n % 256 >>

\* the registration response for a new key with handle keyHandle
RegisterResponseOf(v, appId, challengeText, keyHandle, privateKey) ==
  LET cd == ClientDataOf(appId, challengeText)
      pk == ellipticMarshal(privateKey)
  IN [ClientData |-> Payload(TRUE, cd),
      RegistrationData |->
        Payload(TRUE,
                [head |-> << 5 >> \o pk \o << Len(keyHandle) >> \o keyHandle,
                 cert |-> v.attestationCertBytes,
                 sig |-> generateRegistrationSig(appId, cd, keyHandle, pk,
                                                 v.attestationKey)])]

NoResponse == << >>

\* kh, _ := decodeBase64(k.KeyHandle);
\* vk.getKeyByAppIDAndKeyHandle(req.AppID, string(kh)) != nil
KeyListedEncoded(v, appId, keyHandleText) ==
  getKeyByAppIDAndKeyHandle(v, appId, decodeBase64(keyHandleText).bytes) # << >>

\* vk.getKeyByAppIDAndKeyHandle(req.AppID, k.KeyHandle) != nil: the text of
\* the request is compared with the handle as it stands
KeyListed(v, appId, keyHandleText) ==
  getKeyByAppIDAndKeyHandle(v, appId, BytesOfText(keyHandleText)) # << >>

\* part_015, 381-438: HandleRegisterRequest(req RegisterRequestMessage),
\* with the key pair that ecdsa.GenerateKey gave
HandleRegisterRequest(v, req, privateKey) ==
  IF \E i \in 1..Len(req.RegisteredKeys) :
       KeyListed(v, req.AppID, req.RegisteredKeys[i].KeyHandle)
  THEN [resp |-> NoResponse, err |-> ErrKeyAlreadyRegistered, vk |-> v]
  ELSE
    LET keyHandle == BytesOfText(VirtualKeyHandle(Len(v.keys)))
        keyInst == [AppID |-> req.AppID, KeyHandle |-> keyHandle,
                    Private |-> privateKey, Counter |-> 0]
    IN [resp |-> << RegisterResponseOf(v, req.AppID,
                                       req.RegisterRequests[1].Challenge,
                                       keyHandle, privateKey) >>,
        err |-> NoError,
        vk |-> [v EXCEPT !.keys = Append(@, keyInst)]]

\* part_015, 123-179: HandleRegisterRequest(req RegisterRequest), one key
\* for each AppID
HandleRegisterRequest_AppID(v, req, privateKey) ==
  IF getKeyByAppID(v, req.AppID) # << >>
  THEN [resp |-> NoResponse, err |-> ErrKeyAlreadyRegistered, vk |-> v]
  ELSE
    LET keyHandle == VkHandle(Len(v.keys))
        keyInst == [AppID |-> req.AppID, KeyHandle |-> keyHandle,
                    Private |-> privateKey, Counter |-> 0]
    IN [resp |-> << RegisterResponseOf(v, req.AppID, req.Challenge, keyHandle,
                                       privateKey) >>,
        err |-> NoError,
        vk |-> [v EXCEPT !.keys = Append(@, keyInst)]]

\* virtualkey.go, 148-193: HandleRegisterRequest(req RegisterRequest); the
\* key is not added to vk.keys.  GenerateRegistrationSig signs the digest
\* of the AppID and returns r || s, which is no DER structure.
HandleRegisterRequest_Unrecorded(v, req, privateKey) ==
  IF getKeyByAppID(v, req.AppID) # << >>
  THEN [resp |-> NoResponse, err |-> ErrKeyAlreadyRegistered, vk |-> v]
  ELSE
    LET cd == ClientDataOf(req.AppID, req.Challenge)
        pk == ellipticMarshal(privateKey)
    IN [resp |-> << [ClientData |-> Payload(TRUE, cd),
                     RegistrationData |->
                       Payload(TRUE,
                               [head |-> << 5 >> \o pk \o << Len(TestKeyHandle) >>
                                         \o TestKeyHandle,
                                cert |-> v.attestationCertBytes,
                                sig |-> SigDer("bad", 0, UnrelatedDigest, 56)])] >>,
        err |-> NoError,
        vk |-> v]

\* keyInstance.Counter = keyInstance.Counter + 1, keyInstance being the
\* copy that getKeyByAppIDAndKeyHandle returned: vk.keys stays as it was
CounterKept(keys, keyInstance) == keys

\* part_015, 470-521: HandleAuthenticationRequest(req SignRequestMessage)
HandleAuthenticationRequest(v, req) ==
  LET listed == {i \in 1..Len(req.RegisteredKeys) :
                   KeyListedEncoded(v, req.AppID, req.RegisteredKeys[i].KeyHandle)}
      first == CHOOSE i \in listed : \A j \in listed : i <= j
      ki == getKeyByAppIDAndKeyHandle(
              v, req.AppID, decodeBase64(req.RegisteredKeys[first].KeyHandle).bytes)[1]
      keyInstance == [ki EXCEPT !.Counter = ki.Counter + 1]
      cd == ClientDataOf(req.AppID, req.Challenge)
      buf == << 1 >> \o PutUint32(keyInstance.Counter)
  IN IF listed = {}
     THEN [resp |-> NoResponse, err |-> ErrKeyNotFound, vk |-> v]
     ELSE [resp |-> << [KeyHandle |-> encodeBase64(keyInstance.KeyHandle),
                        ClientData |-> Payload(TRUE, cd),
                        SignatureData |->
                          Payload(TRUE,
                                  [raw |-> buf,
                                   der |-> generateAuthenticationSig(
                                             req.AppID, cd, buf,
                                             keyInstance.Private)])] >>,
           err |-> NoError,
           vk |-> [v EXCEPT !.keys = CounterKept(@, keyInstance)]]

\* binary.LittleEndian.PutUint32
PutUint32LittleEndian(n) ==
  << n % 256, (n \div 256) % 256, (n \div 65536) % 256, (n \div 16777216) % 256 >>

\* part_015, 214-245: HandleAuthenticationRequest(req SignRequest), the key
\* looked up by AppID alone and its counter sent as it is stored
HandleAuthenticationRequest_AppID(v, req) ==
  LET found == getKeyByAppID(v, req.AppID)
      k == found[1]
      cd == ClientDataOf(req.AppID, req.Challenge)
      buf == << 1 >> \o PutUint32LittleEndian(k.Counter)
  IN IF found = << >>
     THEN [resp |-> NoResponse, err |-> ErrKeyNotFound, vk |-> v]
     ELSE [resp |-> << [KeyHandle |-> encodeBase64(k.KeyHandle),
                        ClientData |-> Payload(TRUE, cd),
                        SignatureData |->
                          Payload(TRUE,
                                  [raw |-> buf,
                                   der |-> generateAuthenticationSig(
                                             req.AppID, cd, buf, k.Private)])] >>,
           err |-> NoError,
           vk |-> v]

-----------------------------------------------------------------------------
(* The virtual key with the server of virtualkey_test.go: the server makes
   a challenge from what it has stored, the token answers the request made
   from it, the server verifies the answer and stores the registration *)

MaxKeys == 2
MaxSigns == 2

AppIDOther == "http://other"

TokenVariants == {"keyHandles", "appID", "unrecorded"}

\* the key pairs ecdsa.GenerateKey may give
PrivateKeys == {11, 12}

\* the keys of the token are distinct
FreshKeys(v) == {k \in PrivateKeys : \A i \in 1..Len(v.keys) : v.keys[i].Private # k}

Signs == {i \in 1..Len(hist) : hist[i].op = "sign"}
Registers == {i \in 1..Len(hist) : hist[i].op = "register"}

InitToken ==
  /\ api \in TokenVariants
  /\ now = 0 /\ challenge = << >> /\ store = << >> /\ counter = 0
  /\ arg = << >>
  /\ last = [op |-> "none"]
  /\ hist = << >>
  /\ vk = NewVirtualKey

\* NewChallenge(app_id, facets, registrations): with the registrations
\* stored or with none, trusting the AppID as origin or another origin
TokenNewChallenge ==
  /\ api \in TokenVariants
  /\ arg = << >>
  /\ \E appId \in {AppID, AppIDOther}, trusted \in BOOLEAN,
        keys \in {store, << >>} :
       challenge' = << NewChallenge(Nonce(1 + Len(hist)), appId,
                                    IF trusted THEN << appId >>
                                    ELSE << "https://facet" >>,
                                    keys, now) >>
  /\ last' = [op |-> "NewChallenge"]
  /\ UNCHANGED <<now, store, counter, api, arg, hist, vk>>

\* what is kept of a call of the token: the request, the keys before it,
\* the answer
TokenCall(op, req, r) ==
  [op |-> op, req |-> req, before |-> vk.keys, err |-> r.err, resp |-> r.resp]

\* the requests for c: the one RegisterRequest makes, and one that lists
\* the key handles as they are stored, not encoded
RegisterRequestsFor(c) ==
  {Challenge_RegisterRequest(c),
   [Challenge_RegisterRequest(c) EXCEPT
      !.RegisteredKeys =
         [i \in 1..Len(c.RegisteredKeys) |->
            [Version |-> u2fVersion,
             KeyHandle |-> [j \in 1..Len(c.RegisteredKeys[i].KeyHandle) |->
                              CHOOSE ch \in {Alphabet[n] : n \in 1..64} :
                                AsciiOf(ch) = c.RegisteredKeys[i].KeyHandle[j]]]]]}

TokenHandleRegisterRequest ==
  /\ api = "keyHandles"
  /\ challenge # << >> /\ arg = << >>
  /\ Cardinality(Registers) < MaxKeys
  /\ \E privateKey \in FreshKeys(vk), req \in RegisterRequestsFor(challenge[1]) :
       LET r == HandleRegisterRequest(vk, req, privateKey)
       IN /\ vk' = r.vk
          /\ arg' = IF r.err = NoError
                    THEN << [kind |-> "register", resp |-> r.resp[1]] >> ELSE << >>
          /\ last' = TokenCall("HandleRegisterRequest", req, r)
          /\ hist' = Append(hist, [op |-> "register", err |-> r.err,
                                   kh |-> IF r.err = NoError
                                          THEN << r.vk.keys[Len(r.vk.keys)].KeyHandle >>
                                          ELSE << >>,
                                   ctr |-> 0])
  /\ UNCHANGED <<now, challenge, store, counter, api>>

TokenHandleRegisterRequestAppID ==
  /\ api = "appID"
  /\ challenge # << >> /\ arg = << >>
  /\ Cardinality(Registers) < MaxKeys
  /\ \E privateKey \in FreshKeys(vk) :
       LET req == newRegisterRequest(challenge[1])
           r == HandleRegisterRequest_AppID(vk, req, privateKey)
       IN /\ vk' = r.vk
          /\ last' = TokenCall("HandleRegisterRequest", req, r)
          /\ hist' = Append(hist, [op |-> "register", err |-> r.err,
                                   kh |-> IF r.err = NoError
                                          THEN << r.vk.keys[Len(r.vk.keys)].KeyHandle >>
                                          ELSE << >>,
                                   ctr |-> 0])
  /\ UNCHANGED <<now, challenge, store, counter, api, arg>>

TokenHandleRegisterRequestUnrecorded ==
  /\ api = "unrecorded"
  /\ challenge # << >> /\ arg = << >>
  /\ Cardinality(Registers) < MaxKeys
  /\ \E privateKey \in PrivateKeys :
       LET req == newRegisterRequest(challenge[1])
           r == HandleRegisterRequest_Unrecorded(vk, req, privateKey)
       IN /\ vk' = r.vk
          /\ last' = TokenCall("HandleRegisterRequest", req, r)
          /\ hist' = Append(hist, [op |-> "register", err |-> r.err,
                                   kh |-> IF r.err = NoError
                                          THEN << TestKeyHandle >> ELSE << >>,
                                   ctr |-> 0])
  /\ UNCHANGED <<now, challenge, store, counter, api, arg>>

\* Register(*resp, *c1, &Config{SkipAttestationVerify: ...}); the
\* registration is added to those stored
TokenRegister ==
  /\ api = "keyHandles"
  /\ arg # << >> /\ arg[1].kind = "register"
  /\ \E skip \in BOOLEAN :
       LET r == Challenge_Register(challenge[1], arg[1].resp,
                                   << [SkipAttestationVerify |-> skip] >>, now)
       IN /\ store' = IF r.err = NoError THEN store \o r.reg ELSE store
          /\ last' = [op |-> "Register", skip |-> skip, err |-> r.err, reg |-> r.reg]
  /\ arg' = << >>
  /\ UNCHANGED <<now, challenge, counter, api, hist, vk>>

TokenHandleAuthenticationRequest ==
  /\ api = "keyHandles"
  /\ challenge # << >> /\ arg = << >>
  /\ Cardinality(Signs) < MaxSigns
  /\ LET req == Challenge_SignRequest(challenge[1])
         r == HandleAuthenticationRequest(vk, req)
     IN /\ vk' = r.vk
        /\ arg' = IF r.err = NoError
                  THEN << [kind |-> "sign", resp |-> r.resp[1]] >> ELSE << >>
        /\ last' = TokenCall("HandleAuthenticationRequest", req, r)
        /\ hist' = Append(hist,
                          [op |-> "sign", err |-> r.err,
                           kh |-> IF r.err = NoError
                                  THEN << decodeBase64(r.resp[1].KeyHandle).bytes >>
                                  ELSE << >>,
                           ctr |-> IF r.err = NoError
                                   THEN CounterOf(r.resp[1].SignatureData.bytes)
                                   ELSE 0])
  /\ UNCHANGED <<now, challenge, store, counter, api>>

\* the token that keeps one key per AppID answers a request that names the
\* AppID and the challenge
TokenHandleAuthenticationRequestAppID ==
  /\ api = "appID"
  /\ challenge # << >> /\ arg = << >>
  /\ Cardinality(Signs) < MaxSigns
  /\ LET req == [AppID |-> challenge[1].AppID,
                 Challenge |-> encodeBase64(challenge[1].Challenge)]
         r == HandleAuthenticationRequest_AppID(vk, req)
     IN /\ last' = TokenCall("HandleAuthenticationRequest", req, r)
        /\ hist' = Append(hist,
                          [op |-> "sign", err |-> r.err,
                           kh |-> IF r.err = NoError
                                  THEN << decodeBase64(r.resp[1].KeyHandle).bytes >>
                                  ELSE << >>,
                           ctr |-> IF r.err = NoError
                                   THEN CounterOf(r.resp[1].SignatureData.bytes)
                                   ELSE 0])
  /\ UNCHANGED <<now, challenge, store, counter, api, arg, vk>>

\* c2.Authenticate(*signResp); the returned registration is stored in
\* place of the one with its key handle
TokenAuthenticate ==
  /\ api = "keyHandles"
  /\ arg # << >> /\ arg[1].kind = "sign"
  /\ LET r == Challenge_Authenticate(challenge[1], arg[1].resp, now)
     IN /\ store' = IF r.err = NoError THEN Updated(store, r.reg[1]) ELSE store
        /\ last' = [op |-> "Authenticate", err |-> r.err, reg |-> r.reg]
  /\ arg' = << >>
  /\ UNCHANGED <<now, challenge, counter, api, hist, vk>>

NextToken ==
  \/ TokenNewChallenge
  \/ TokenHandleRegisterRequest
  \/ TokenHandleRegisterRequestAppID
  \/ TokenHandleRegisterRequestUnrecorded
  \/ TokenRegister
  \/ TokenHandleAuthenticationRequest
  \/ TokenHandleAuthenticationRequestAppID
  \/ TokenAuthenticate

SpecToken == InitToken /\ [][NextToken]_vars

-----------------------------------------------------------------------------
\* the answers the token gave with a key of its table
SignsOf(kh) == {i \in Signs : hist[i].err = NoError /\ hist[i].kh = << kh >>}

\* C22: once the token holds a key, the counters of its successive
\* authentication responses for that key increase strictly, each call
\* raising the counter stored with the key.
C22_CountersStrictlyIncrease ==
  api = "keyHandles" =>
    \A k \in 1..Len(vk.keys) :
      \A i, j \in SignsOf(vk.keys[k].KeyHandle) :
        i < j => hist[j].ctr > hist[i].ctr

\* the token, before the call, held a key for the AppID of the request:
\* one that the request lists by its encoded handle where requests list
\* the registered keys, any key of that AppID otherwise
HeldBefore ==
  IF api = "keyHandles"
  THEN \E i \in 1..Len(last.req.RegisteredKeys), k \in 1..Len(last.before) :
         /\ last.before[k].AppID = last.req.AppID
         /\ last.req.RegisteredKeys[i].KeyHandle
              = encodeBase64(last.before[k].KeyHandle)
  ELSE \E k \in 1..Len(last.before) : last.before[k].AppID = last.req.AppID

\* C23: HandleRegisterRequest fails with the already-registered error and
\* records no key when the token already holds a key for the AppID of the
\* request (where requests list the registered keys: a key that the
\* request lists).
C23_AlreadyRegisteredRefused ==
  (last.op = "HandleRegisterRequest" /\ HeldBefore) =>
    /\ last.err = ErrKeyAlreadyRegistered
    /\ vk.keys = last.before

\* C24: every key handle given out by a successful HandleRegisterRequest
\* differs from those given out before, and no two keys of the table share
\* a key handle.
C24_KeyHandlesUnique ==
  /\ \A i, j \in 1..Len(vk.keys) :
       i # j => vk.keys[i].KeyHandle # vk.keys[j].KeyHandle
  /\ \A i, j \in Registers :
       (i < j /\ hist[i].err = NoError /\ hist[j].err = NoError)
         => hist[i].kh # hist[j].kh

\* the challenge trusts its own AppID as an origin
TrustsAppID ==
  \E i \in 1..Len(challenge[1].TrustedFacets) :
    challenge[1].TrustedFacets[i] = challenge[1].AppID

\* the answer in flight names the registration the challenge lists last
AnswersLastKey ==
  LET keys == challenge[1].RegisteredKeys
  IN /\ keys # << >>
     /\ arg[1].resp.KeyHandle = encodeBase64(keys[Len(keys)].KeyHandle)

-----------------------------------------------------------------------------
\* the response is one the verifier accepts, but for its signature
AcceptedButSignature ==
  IF last.op \in AuthOps
  THEN /\ RegistrationSettled /\ InTimeAndTrusted
       /\ HonestBut({"sigform"}) /\ F.ctr >= StoredCounter
  ELSE /\ NotExpiredAtCall /\ OriginTrusted
       /\ F = [HonestReg EXCEPT !.sigform = F.sigform]

\* what a flipped bit makes of the DER signature: the structure of another
\* pair (r, s), or bytes that are no such structure
SignatureBitFlipped == F.sigform \in {"stale", "bad"}

\* C26: an accepted registration or authentication response with one bit
\* of its signature flipped fails with the invalid-signature error, never
\* succeeds and never fails with an error of another kind.
C26_FlippedSignatureIsInvalid ==
  (Called /\ AcceptedButSignature /\ SignatureBitFlipped) =>
    last.err \in {ErrInvalidSig, ErrX509Signature}

\* the keys of the token that carry the key handle of its latest response
AnsweringKeys ==
  { i \in 1..Len(vk.keys) :
      vk.keys[i].KeyHandle = decodeBase64(last.resp[1].KeyHandle).bytes }

\* C40: the signature data of a response of the virtual key holds the use
\* counter as four big-endian bytes, so that the counter parseSignResponse
\* reads from it is the counter the token holds for that key after the call.
C40_TokenCounterBigEndian ==
  ( /\ api \in {"keyHandles", "appID"}
    /\ last.op = "HandleAuthenticationRequest" /\ last.err = NoError )
  => \A i \in AnsweringKeys :
       /\ SubSeq(last.resp[1].SignatureData.bytes.raw, 2, 5) =
            PutUint32(vk.keys[i].Counter)
       /\ parseSignResponse(last.resp[1].SignatureData.bytes).ar.Counter =
            vk.keys[i].Counter


\* C39: the Registration a successful authenticate returns is the stored
\* registration that has the key handle of the response, with nothing but
\* its Counter changed, and the counter it carries, or the counter returned
\* in its place, is the parsed one; a failing call returns no Registration
\* and no counter, also when it fails after the counter was assigned.
C39_ReturnsMatchedRegistrationWithParsedCounter ==
  (last.op \in AuthOps) =>
    IF last.err = NoError
    THEN IF last.op = "Challenge.Authenticate"
         THEN /\ last.out # << >>
              /\ \E i \in Matching :
                    last.out[1] = [store[i] EXCEPT !.Counter = Parsed.ar.Counter]
         ELSE last.newCounter = Parsed.ar.Counter
    ELSE last.out = << >> /\ last.newCounter = 0

====
